---- MODULE Spec2Model ----
(***************************************************************************)
(* Segmentation validation and cleanup engine of the Vista-3D frontend     *)
(* (frontend/utils/segmentation_validator.py).                             *)
(*                                                                         *)
(* A label volume is a function from voxel index triples to integer label  *)
(* IDs (0 = background).  The five validator checks, the two cleaner       *)
(* operations and validate_and_clean are operators computed the way the    *)
(* Python code computes them; each is exposed as one action that a caller  *)
(* applies to the volume it currently holds.                               *)
(***************************************************************************)
EXTENDS Integers, Sequences, FiniteSets, TLC

VARIABLES
    seg_img,      \* the caller's segmentation image: [shape, affine, data]
    pc,           \* "ready": the caller holds seg_img; "returned": a call has returned
    ret,          \* the last call: operation, arguments, the array as given, return value
    prior,        \* what the earlier runs returned, when an operation is run again
    config_manager,             \* the ConfigManager object: its three caches and
                                \* the fallback flag
    conf_dir,                   \* the three JSON files of the config directory
    loads,                      \* the files _load_json has opened since the last
                                \* refresh_cache
    constants,                  \* the utils.constants values the batch driver imported
    patient_validation_results, \* the results collected for the patient, in scan order
    voxels_dir                  \* what the batch driver has saved, scan by scan

\* the state of the configuration manager
conf_vars == <<config_manager, conf_dir, loads>>

\* the state of the batch driver
driver_vars == <<constants, patient_validation_results, voxels_dir>>

vars == <<seg_img, pc, ret, prior, config_manager, conf_dir, loads, constants, patient_validation_results, voxels_dir>>

-----------------------------------------------------------------------------
(* Bounds of the model *)

\* most labeled voxels in a sparse input volume
MaxLabeled == 2
\* most background voxels in a dense input volume
MaxHoles == 1
\* how many times a cleaner is run again on its own output
MaxReapply == 1

\* the clock readings (seconds) a report may be generated at
MaxClock == 2

\* most results in a list before its last one
MaxEarlier == 1

\* most files opened between two refresh_cache calls
MaxLoads == 3

\* most scans of a patient
MaxScans == 2

-----------------------------------------------------------------------------
(* Geometry of a 3-D array *)

Abs(x) == IF x < 0 THEN 0 - x ELSE x

Min2(a, b) == IF a < b THEN a ELSE b

Max2(a, b) == IF a > b THEN a ELSE b

\* all index triples of an array of the given shape
Voxels(shape) == (0 .. shape[1] - 1) \X (0 .. shape[2] - 1) \X (0 .. shape[3] - 1)

\* ndarray.size
ArraySize(shape) == shape[1] * shape[2] * shape[3]

\* position of a voxel in C (row-major) order
Raster(shape, v) == (v[1] * shape[2] + v[2]) * shape[3] + v[3]

\* a full 3x3x3 structuring element: edge and corner neighbours as well
FaceAdjacentOrDiagonal(u, v) ==
    /\ u # v
    /\ \A d \in 1 .. 3 : Abs(u[d] - v[d]) <= 1

\* scipy's default structuring element for 3-D: face neighbours only
FaceAdjacent(u, v) ==
    Abs(u[1] - v[1]) + Abs(u[2] - v[2]) + Abs(u[3] - v[3]) = 1

\* np.count_nonzero
CountNonzero(data) == Cardinality({v \in DOMAIN data : data[v] # 0})

RECURSIVE SortedSeq(_)
\* the elements of a finite set of integers, ascending
SortedSeq(S) ==
    IF S = {} THEN <<>>
    ELSE LET m == CHOOSE x \in S : \A y \in S : x <= y
         IN  <<m>> \o SortedSeq(S \ {m})

\* background removed with unique_labels[unique_labels > 0]
UniqueLabelsPositive(data) ==
    SortedSeq({x \in {data[v] : v \in DOMAIN data} : x > 0})

\* np.unique(seg_data) followed by unique_labels[unique_labels != 0]
UniqueLabels(data) == SortedSeq({data[v] : v \in DOMAIN data} \ {0})

\* np.unique(seg_data)
UniqueValues(data) == SortedSeq({data[v] : v \in DOMAIN data})

\* .astype(np.int16): two's-complement wrap to 16 bits
ToInt16(x) == ((x + 32768) % 65536) - 32768

\* ndarray.copy(): a new array holding the same values; writes to it do not
\* reach the array it was copied from
NdAlias(a) == [data |-> a, shared |-> TRUE]

NdCopy(a) == [data |-> a, shared |-> FALSE]

\* get_fdata().astype(np.int16): a new int16 array
AsTypeInt16(a) == [data |-> [v \in DOMAIN a |-> ToInt16(a[v])], shared |-> FALSE]

\* what the argument array holds after a function that wrote `final` into its
\* working array `work` (made from the argument `arg`) has returned
ArgAfter(arg, work, final) == IF work.shared THEN final ELSE arg

-----------------------------------------------------------------------------
(* Connected components: scipy.ndimage.label with the default structure *)

RECURSIVE Flood(_, _)
\* the voxels of `mask` reachable from `comp` through face-adjacent mask voxels
Flood(comp, mask) ==
    LET next == comp \cup {v \in mask : \E u \in comp : FaceAdjacent(u, v)}
    IN  IF next = comp THEN comp ELSE Flood(next, mask)

RECURSIVE NdLabel(_, _)
\* the components of `mask`, numbered 1..num_features in raster order of
\* their first voxel; labeled_array[v] = i iff v \in NdLabel(mask, shape)[i]
NdLabel(mask, shape) ==
    IF mask = {} THEN <<>>
    ELSE LET first == CHOOSE v \in mask :
                          \A u \in mask : Raster(shape, v) <= Raster(shape, u)
             comp  == Flood({first}, mask)
         IN  <<comp>> \o NdLabel(mask \ comp, shape)

-----------------------------------------------------------------------------
(* SegmentationCleaner *)

\* SegmentationCleaner.__init__: config.get('min_voxels_per_component', 10)
DEFAULT_MIN_VOXELS_PER_COMPONENT == 10

\* config.get(key, default) on a dict modelled as a function
ConfigGet(config, key, default) ==
    IF key \in DOMAIN config THEN config[key] ELSE default

CleanerMinVoxels(config) ==
    ConfigGet(config, "min_voxels_per_component", DEFAULT_MIN_VOXELS_PER_COMPONENT)

\* `if min_voxels is None: min_voxels = self.min_voxels_per_component`;
\* the optional argument is <<>> for None and <<m>> for the value m
MinVoxelsArg(min_voxels, config) ==
    IF min_voxels = <<>> THEN CleanerMinVoxels(config) ELSE min_voxels[1]

\* `if size < min_voxels` in remove_small_components
IsSmallLeq(size, min_voxels) == size <= min_voxels

IsSmall(size, min_voxels) == size < min_voxels

\* the assignment writing a marker value of -1 instead of 0
ZeroAtMarked(data, mask) == [v \in DOMAIN data |-> IF v \in mask THEN 0 - 1 ELSE data[v]]

\* cleaned_data[mask] = 0
ZeroAt(data, mask) == [v \in DOMAIN data |-> IF v \in mask THEN 0 ELSE data[v]]

RECURSIVE ZeroSmallCountsAll(_, _, _, _)
\* the loop with total_removed += 1 outside the size test
ZeroSmallCountsAll(acc, comps, i, min_voxels) ==
    IF i > Len(comps) THEN acc
    ELSE IF IsSmall(Cardinality(comps[i]), min_voxels)
         THEN ZeroSmallCountsAll([data  |-> ZeroAt(acc.data, comps[i]),
                                  count |-> acc.count + 1],
                                 comps, i + 1, min_voxels)
         ELSE ZeroSmallCountsAll([data  |-> acc.data,
                                  count |-> acc.count + 1],
                                 comps, i + 1, min_voxels)

RECURSIVE ZeroSmall(_, _, _, _)
\* the loop over enumerate(component_sizes, start=1); acc = [data, count],
\* count being total_removed
ZeroSmall(acc, comps, i, min_voxels) ==
    IF i > Len(comps) THEN acc
    ELSE IF IsSmall(Cardinality(comps[i]), min_voxels)
         THEN ZeroSmall([data  |-> ZeroAt(acc.data, comps[i]),
                         count |-> acc.count + 1],
                        comps, i + 1, min_voxels)
         ELSE ZeroSmall(acc, comps, i + 1, min_voxels)

RECURSIVE RemoveLabels(_, _, _, _, _)
\* the loop `for label_id in unique_labels` of remove_small_components
RemoveLabels(acc, labels, i, shape, min_voxels) ==
    IF i > Len(labels) THEN acc
    ELSE LET label_mask == {v \in DOMAIN acc.data : acc.data[v] = labels[i]}
             comps      == NdLabel(label_mask, shape)
         IN  RemoveLabels(IF Len(comps) > 0
                          THEN ZeroSmall(acc, comps, 1, min_voxels)
                          ELSE acc,
                          labels, i + 1, shape, min_voxels)

\* `return cleaned_data, count`; `arg` is what the argument array holds once
\* the call has returned
CleanerReturn(seg_data, cleaned, out) ==
    [data  |-> out.data,
     count |-> out.count,
     arg   |-> ArgAfter(seg_data, cleaned, out.data)]

\* SegmentationCleaner.remove_small_components (count = total_removed)
RemoveSmallComponents(seg_data, shape, min_voxels) ==
    LET cleaned == NdCopy(seg_data)
    IN  CleanerReturn(seg_data, cleaned,
                      RemoveLabels([data |-> cleaned.data, count |-> 0],
                                   UniqueLabels(seg_data), 1, shape, min_voxels))

\* edge_thickness = 2
EDGE_THICKNESS == 2

\* the six face slabs in the order the code visits them
EdgeSlabs ==
    << [dim |-> 0, side |-> "start"], [dim |-> 0, side |-> "end"],
       [dim |-> 1, side |-> "start"], [dim |-> 1, side |-> "end"],
       [dim |-> 2, side |-> "start"], [dim |-> 2, side |-> "end"] >>

\* slice(0, edge_thickness) and slice(-edge_thickness, None) on an axis of length n
EdgeSlice(n, side) ==
    IF side = "start" THEN 0 .. (Min2(EDGE_THICKNESS, n) - 1)
    ELSE Max2(n - EDGE_THICKNESS, 0) .. (n - 1)

\* edge_mask: the voxels of one face slab
EdgeMask(shape, slab) ==
    {v \in Voxels(shape) :
        v[slab.dim + 1] \in EdgeSlice(shape[slab.dim + 1], slab.side)}

\* np.prod(cleaned_data[tuple(edge_slice)].shape)
EdgeSize(shape, slab) ==
    ArraySize([shape EXCEPT ![slab.dim + 1] =
                   Cardinality(EdgeSlice(shape[slab.dim + 1], slab.side))])

\* `edge_ratio < 0.1` with edge_ratio = edge_voxels / size (for these sizes
\* the float quotient compares with 0.1 as the exact quotient does)
BelowEdgeRatioLeq(edge_voxels, size) == edge_voxels * 10 <= size

BelowEdgeRatio(edge_voxels, size) == edge_voxels * 10 < size

\* a face slab counted without the assignment cleaned_data[...] = 0
EdgeStepKeepsData(acc, shape, slab) ==
    LET edge_mask   == EdgeMask(shape, slab)
        hit         == {v \in edge_mask : acc.data[v] > 0}
        edge_voxels == Cardinality(hit)
    IN  IF edge_voxels > 0 /\ BelowEdgeRatio(edge_voxels, EdgeSize(shape, slab))
        THEN [data  |-> acc.data,
              count |-> acc.count + edge_voxels]
        ELSE acc

\* one face slab of clean_artifacts; acc = [data, count], count being
\* stats['edge_voxels_removed']
EdgeStep(acc, shape, slab) ==
    LET edge_mask   == EdgeMask(shape, slab)
        hit         == {v \in edge_mask : acc.data[v] > 0}
        edge_voxels == Cardinality(hit)
    IN  IF edge_voxels > 0 /\ BelowEdgeRatio(edge_voxels, EdgeSize(shape, slab))
        THEN [data  |-> ZeroAt(acc.data, hit),
              count |-> acc.count + edge_voxels]
        ELSE acc

RECURSIVE EdgeStates(_, _, _)
\* the working array and the running count before slab k, ..., after slab 6
EdgeStates(acc, shape, k) ==
    IF k > Len(EdgeSlabs) THEN <<acc>>
    ELSE <<acc>> \o EdgeStates(EdgeStep(acc, shape, EdgeSlabs[k]), shape, k + 1)

LastOf(seq) == seq[Len(seq)]

\* SegmentationCleaner.clean_artifacts (count = stats['total_cleaned'], which
\* is set from stats['edge_voxels_removed'])
CleanArtifacts(seg_data, shape) ==
    LET cleaned == NdCopy(seg_data)
    IN  CleanerReturn(seg_data, cleaned,
                      LastOf(EdgeStates([data |-> cleaned.data, count |-> 0], shape, 1)))

-----------------------------------------------------------------------------
(* SegmentationValidator *)

\* SegmentationValidator.__init__ defaults
DEFAULT_MIN_VOXELS_PER_LABEL == 10

\* 0.95 and 0.001 as exact fractions
DEFAULT_MAX_SEGMENTATION_RATIO == [num |-> 95, den |-> 100]

DEFAULT_MIN_SEGMENTATION_RATIO == [num |-> 1, den |-> 1000]

\* one message of a check: which check produced it, what it reports, and
\* the values the f-string prints
Finding(check, kind, count, items, truncated) ==
    [check |-> check, kind |-> kind, count |-> count, items |-> items,
     truncated |-> truncated]

\* the list without the slice
TakeAll(seq, n) == seq

\* list[:n]
Take(seq, n) == SubSeq(seq, 1, Min2(n, Len(seq)))

\* np.allclose(a, b, atol=1e-3): |a - b| <= atol + rtol * |b| with rtol = 1e-5;
\* an affine is held as one representative element in units of 1e-4
AllClose(a, b) == Abs(a - b) * 100000 <= 10 * 100000 + Abs(b)

\* validate_dimensions: returns (is_valid, errors); input_img is <<>> for None
ValidateDimensions(seg, input_img) ==
    IF Len(seg.shape) < 3
    THEN [valid |-> FALSE, warnings |-> <<>>,
          errors |-> <<Finding("dimension", "invalid_dimensions", 0, seg.shape, FALSE)>>]
    ELSE LET shape_err ==
                 IF input_img # <<>> /\ seg.shape # input_img[1].shape
                 THEN <<Finding("dimension", "dimension_mismatch", 0,
                                <<seg.shape, input_img[1].shape>>, FALSE)>>
                 ELSE <<>>
             affine_err ==
                 IF input_img # <<>> /\ ~AllClose(seg.affine, input_img[1].affine)
                 THEN <<Finding("dimension", "affine_mismatch", 0, <<>>, FALSE)>>
                 ELSE <<>>
             errors == shape_err \o affine_err
         IN  [valid |-> Len(errors) = 0, warnings |-> <<>>, errors |-> errors]

\* validate_labels
ValidateLabels(seg_data, label_dict) ==
    LET unique_labels   == UniqueLabels(seg_data)
        unknown_labels  == SelectSeq(unique_labels, LAMBDA l : l \notin DOMAIN label_dict)
        negative_labels == SelectSeq(unique_labels, LAMBDA l : l < 0)
        warnings ==
            IF Len(unknown_labels) > 0
            THEN <<Finding("label", "unknown_labels", Len(unknown_labels),
                           Take(unknown_labels, 10), Len(unknown_labels) > 10)>>
            ELSE <<>>
        errors ==
            IF Len(negative_labels) > 0
            THEN <<Finding("label", "negative_labels", Len(negative_labels),
                           negative_labels, FALSE)>>
            ELSE <<>>
    IN  [valid |-> Len(errors) = 0, warnings |-> warnings, errors |-> errors]

\* segmentation_ratio > self.max_segmentation_ratio, ratio = segmented / total
\* (0 when total_voxels is 0)
RatioAboveGeq(segmented, total, r) ==
    IF total > 0 THEN segmented * r.den >= r.num * total ELSE FALSE

RatioAbove(segmented, total, r) ==
    IF total > 0 THEN segmented * r.den > r.num * total ELSE FALSE

\* segmentation_ratio < self.min_segmentation_ratio
RatioBelow(segmented, total, r) ==
    IF total > 0 THEN segmented * r.den < r.num * total ELSE 0 < r.num

\* label_dict.get(int(label_id), {}).get('name', f'Label {label_id}')
LabelName(label_dict, label_id) ==
    IF label_id \in DOMAIN label_dict /\ "name" \in DOMAIN label_dict[label_id]
    THEN label_dict[label_id].name
    ELSE <<"Label", label_id>>

\* np.count_nonzero(seg_data == label_id)
LabelCount(seg_data, label_id) ==
    Cardinality({v \in DOMAIN seg_data : seg_data[v] = label_id})

\* `if voxel_count < self.min_voxels_per_label`
BelowLabelMinLeq(voxel_count, min_voxels_per_label) == voxel_count <= min_voxels_per_label

BelowLabelMin(voxel_count, min_voxels_per_label) == voxel_count < min_voxels_per_label

\* validate_voxel_counts with the under-segmentation test as a second `if`
ValidateVoxelCountsBothRatios(seg_data, label_dict, total_voxels, config) ==
    LET min_voxels_per_label == ConfigGet(config, "min_voxels_per_label",
                                          DEFAULT_MIN_VOXELS_PER_LABEL)
        max_ratio == ConfigGet(config, "max_segmentation_ratio",
                               DEFAULT_MAX_SEGMENTATION_RATIO)
        min_ratio == ConfigGet(config, "min_segmentation_ratio",
                               DEFAULT_MIN_SEGMENTATION_RATIO)
        unique_labels    == UniqueLabels(seg_data)
        segmented_voxels == CountNonzero(seg_data)
        over_warn ==
            IF RatioAbove(segmented_voxels, total_voxels, max_ratio)
            THEN <<Finding("voxel", "over_segmentation", segmented_voxels,
                           <<segmented_voxels, total_voxels>>, FALSE)>>
            ELSE <<>>
        under_warn ==
            IF RatioBelow(segmented_voxels, total_voxels, min_ratio)
            THEN <<Finding("voxel", "under_segmentation", segmented_voxels,
                           <<segmented_voxels, total_voxels>>, FALSE)>>
            ELSE <<>>
        small_ids == SelectSeq(unique_labels,
                         LAMBDA l : BelowLabelMin(LabelCount(seg_data, l),
                                                  min_voxels_per_label))
        small_labels == [i \in 1 .. Len(small_ids) |->
                            <<LabelName(label_dict, small_ids[i]), small_ids[i],
                              LabelCount(seg_data, small_ids[i])>>]
        small_warn ==
            IF Len(small_labels) > 0
            THEN <<Finding("voxel", "small_labels", Len(small_labels),
                           Take(small_labels, 5), Len(small_labels) > 5)>>
            ELSE <<>>
    IN  [valid |-> TRUE, warnings |-> over_warn \o under_warn \o small_warn,
         errors |-> <<>>]

\* validate_voxel_counts
ValidateVoxelCounts(seg_data, label_dict, total_voxels, config) ==
    LET min_voxels_per_label == ConfigGet(config, "min_voxels_per_label",
                                          DEFAULT_MIN_VOXELS_PER_LABEL)
        max_ratio == ConfigGet(config, "max_segmentation_ratio",
                               DEFAULT_MAX_SEGMENTATION_RATIO)
        min_ratio == ConfigGet(config, "min_segmentation_ratio",
                               DEFAULT_MIN_SEGMENTATION_RATIO)
        unique_labels    == UniqueLabels(seg_data)
        segmented_voxels == CountNonzero(seg_data)
        ratio_warn ==
            IF RatioAbove(segmented_voxels, total_voxels, max_ratio)
            THEN <<Finding("voxel", "over_segmentation", segmented_voxels,
                           <<segmented_voxels, total_voxels>>, FALSE)>>
            ELSE IF RatioBelow(segmented_voxels, total_voxels, min_ratio)
            THEN <<Finding("voxel", "under_segmentation", segmented_voxels,
                           <<segmented_voxels, total_voxels>>, FALSE)>>
            ELSE <<>>
        small_ids == SelectSeq(unique_labels,
                         LAMBDA l : BelowLabelMin(LabelCount(seg_data, l),
                                                  min_voxels_per_label))
        small_labels == [i \in 1 .. Len(small_ids) |->
                            <<LabelName(label_dict, small_ids[i]), small_ids[i],
                              LabelCount(seg_data, small_ids[i])>>]
        small_warn ==
            IF Len(small_labels) > 0
            THEN <<Finding("voxel", "small_labels", Len(small_labels),
                           Take(small_labels, 5), Len(small_labels) > 5)>>
            ELSE <<>>
    IN  [valid |-> TRUE, warnings |-> ratio_warn \o small_warn, errors |-> <<>>]

\* `if num_features > 1` in validate_spatial_consistency
CountsComponents(num_features) == num_features > 1

RECURSIVE SmallComponentTotal(_, _, _, _, _)
\* the loop `for label_id in unique_labels` of validate_spatial_consistency
SmallComponentTotal(seg_data, shape, labels, i, min_voxels) ==
    IF i > Len(labels) THEN 0
    ELSE LET comps == NdLabel({v \in DOMAIN seg_data : seg_data[v] = labels[i]}, shape)
             small == {c \in 1 .. Len(comps) : Cardinality(comps[c]) < min_voxels}
         IN  (IF CountsComponents(Len(comps)) THEN Cardinality(small) ELSE 0)
             + SmallComponentTotal(seg_data, shape, labels, i + 1, min_voxels)

\* validate_spatial_consistency
ValidateSpatialConsistency(seg_data, shape, config) ==
    LET min_voxels == ConfigGet(config, "min_voxels_per_component",
                                DEFAULT_MIN_VOXELS_PER_COMPONENT)
        total == SmallComponentTotal(seg_data, shape, UniqueLabels(seg_data), 1, min_voxels)
    IN  [valid |-> TRUE,
         warnings |-> IF total > 0
                      THEN <<Finding("spatial", "small_components", total, <<>>, FALSE)>>
                      ELSE <<>>,
         errors |-> <<>>]

DominatesGeq(max_label_count, total_segmented) ==
    IF total_segmented > 0 THEN max_label_count * 10 >= 9 * total_segmented ELSE FALSE

\* `max_ratio > 0.9` with max_ratio = max_label_count / total_segmented
Dominates(max_label_count, total_segmented) ==
    IF total_segmented > 0 THEN max_label_count * 10 > 9 * total_segmented ELSE FALSE

\* `len(unique_labels) == 1 and unique_labels[0] == 0`
OnlyBackgroundNever(unique_labels) == Len(unique_labels) = 0

OnlyBackground(unique_labels) == Len(unique_labels) = 1 /\ unique_labels[1] = 0

\* validate_statistics
ValidateStatistics(seg_data) ==
    LET unique_labels == UniqueValues(seg_data)
    IN  IF OnlyBackground(unique_labels)
        THEN [valid |-> FALSE, warnings |-> <<>>,
              errors |-> <<Finding("statistical", "empty", 0, <<>>, FALSE)>>]
        ELSE LET ids == SelectSeq(unique_labels, LAMBDA l : l # 0)
                 counts == [i \in 1 .. Len(ids) |-> LabelCount(seg_data, ids[i])]
                 total_segmented == CountNonzero(seg_data)
                 \* max(label_counts, key=label_counts.get): the first key, in
                 \* insertion (ascending) order, that holds the largest count
                 best == CHOOSE i \in 1 .. Len(ids) :
                             /\ \A j \in 1 .. Len(ids) : counts[j] <= counts[i]
                             /\ \A j \in 1 .. (i - 1) : counts[j] < counts[i]
             IN  [valid |-> TRUE,
                  warnings |->
                      IF Len(ids) > 0 /\ Dominates(counts[best], total_segmented)
                      THEN <<Finding("statistical", "dominant_label", counts[best],
                                     <<ids[best], counts[best], total_segmented>>, FALSE)>>
                      ELSE <<>>,
                  errors |-> <<>>]

-----------------------------------------------------------------------------
(* validate_and_clean *)

\* result['valid'] = len(result['errors']) == 0
OverallValidStrict(errors, warnings) == Len(errors) = 0 /\ Len(warnings) = 0

OverallValid(errors, warnings) == Len(errors) = 0

\* `if enable_cleanup and (len(warnings) > 0 or len(errors) > 0)`
ShouldCleanAlways(enable_cleanup, warnings, errors) == enable_cleanup

ShouldClean(enable_cleanup, warnings, errors) ==
    enable_cleanup /\ (Len(warnings) > 0 \/ Len(errors) > 0)

\* `if num_removed > 0 or artifact_stats['total_cleaned'] > 0`
CleanupChangedOnlyComponents(num_removed, total_cleaned) == num_removed > 0

CleanupChanged(num_removed, total_cleaned) == num_removed > 0 \/ total_cleaned > 0

\* the result['errors'].extend(...) calls, in program order
MergeErrorsStatsFirst(dim, label, voxel, spatial, stats) ==
    stats.errors \o dim.errors \o label.errors \o voxel.errors \o spatial.errors

\* the later checks' errors dropped once the dimension check has failed
MergeErrorsStopAtDimension(dim, label, voxel, spatial, stats) ==
    IF Len(dim.errors) > 0
    THEN dim.errors
    ELSE dim.errors \o label.errors \o voxel.errors \o spatial.errors \o stats.errors

MergeErrors(dim, label, voxel, spatial, stats) ==
    dim.errors \o label.errors \o voxel.errors \o spatial.errors \o stats.errors

\* the warnings without those of validate_statistics
MergeWarningsWithoutStatistics(label, voxel, spatial, stats) ==
    label.warnings \o voxel.warnings \o spatial.warnings

\* the result['warnings'].extend(...) calls, in program order
MergeWarnings(label, voxel, spatial, stats) ==
    label.warnings \o voxel.warnings \o spatial.warnings \o stats.warnings

\* result['stats'] as first filled in
BaseStats(seg_data) ==
    [total_voxels       |-> Cardinality(DOMAIN seg_data),
     segmented_voxels   |-> CountNonzero(seg_data),
     segmentation_ratio |-> <<CountNonzero(seg_data), Cardinality(DOMAIN seg_data)>>,
     num_labels         |-> Len(UniqueLabels(seg_data)),
     label_ids          |-> UniqueLabels(seg_data)]

\* the end of validate_and_clean: the result dictionary, given what the
\* cleanup block computed (removed, cleaned: the two cleaner calls' returns);
\* cleaned_img is <<>> for None
ResultOf(segmentation_img, local, warnings, errors, attempt, removed, cleaned) ==
    [valid    |-> OverallValid(errors, warnings),
     warnings |-> warnings,
     errors   |-> errors,
     stats    |-> IF attempt /\ CleanupChanged(removed.count, cleaned.count)
                  THEN [components_removed |-> removed.count,
                        artifacts_removed  |-> cleaned.count] @@ BaseStats(local.data)
                  ELSE BaseStats(local.data),
     cleaned  |-> attempt /\ CleanupChanged(removed.count, cleaned.count),
     cleaned_img |-> IF attempt /\ CleanupChanged(removed.count, cleaned.count)
                     THEN <<[shape  |-> segmentation_img.shape,
                             affine |-> segmentation_img.affine,
                             data   |-> [v \in DOMAIN cleaned.data |->
                                            ToInt16(cleaned.data[v])]]>>
                     ELSE <<>>,
     attempted |-> attempt,
     arg |-> ArgAfter(segmentation_img.data, local,
                      IF attempt THEN removed.arg ELSE local.data)]

\* the cleanup block with the two cleaner calls in the other order:
\* clean_artifacts on seg_data, then remove_small_components on what it
\* returned
CleanupOfArtifactsFirst(segmentation_img, config, local, warnings, errors, removed) ==
    ResultOf(segmentation_img, local, warnings, errors,
             ShouldClean(ConfigGet(config, "enable_cleanup", TRUE), warnings, errors),
             RemoveSmallComponents(CleanArtifacts(local.data, segmentation_img.shape).data,
                                   segmentation_img.shape, MinVoxelsArg(<<>>, config)),
             [data  |-> RemoveSmallComponents(
                            CleanArtifacts(local.data, segmentation_img.shape).data,
                            segmentation_img.shape, MinVoxelsArg(<<>>, config)).data,
              count |-> CleanArtifacts(local.data, segmentation_img.shape).count])

\* the cleanup block of validate_and_clean: remove_small_components, then
\* clean_artifacts on what it returned
CleanupOf(segmentation_img, config, local, warnings, errors, removed) ==
    ResultOf(segmentation_img, local, warnings, errors,
             ShouldClean(ConfigGet(config, "enable_cleanup", TRUE), warnings, errors),
             removed,
             CleanArtifacts(removed.data, segmentation_img.shape))

\* validate_and_clean from `# Run validations` on; local is the int16 array
\* seg_data, dim .. stat the five checks' returns
ChecksOf(segmentation_img, config, local, dim, label, voxel, spatial, stat) ==
    CleanupOf(segmentation_img, config, local,
              MergeWarnings(label, voxel, spatial, stat),
              MergeErrors(dim, label, voxel, spatial, stat),
              RemoveSmallComponents(local.data, segmentation_img.shape,
                                    MinVoxelsArg(<<>>, config)))

\* the five checks on the int16 array
RunOn(segmentation_img, input_img, label_dict, config, local) ==
    ChecksOf(segmentation_img, config, local,
             ValidateDimensions(segmentation_img, input_img),
             ValidateLabels(local.data, label_dict),
             ValidateVoxelCounts(local.data, label_dict,
                                 Cardinality(DOMAIN local.data), config),
             ValidateSpatialConsistency(local.data, segmentation_img.shape, config),
             ValidateStatistics(local.data))

\* validate_and_clean; input_img is <<>> for None; `arg` is what the caller's
\* image array holds once the call has returned
ValidateAndClean(segmentation_img, input_img, label_dict, config) ==
    RunOn(segmentation_img, input_img, label_dict, config,
          AsTypeInt16(segmentation_img.data))

-----------------------------------------------------------------------------
(* generate_validation_report: the report is the sequence of its lines, each
   line a tuple of its fixed text and the values formatted into it *)

\* the catalog: LABEL_DICT = {item['id']: item for item in label_colors_list}
LabelDict ==
    [id \in {1, 2} |-> [id |-> id, name |-> IF id = 1 THEN "liver" ELSE "spleen"]]

\* f"{ratio:.2%}": the ratio in hundredths of a percent, rounded to nearest
PercentTwoPlaces(ratio) ==
    IF ratio[2] > 0 THEN (2 * 10000 * ratio[1] + ratio[2]) \div (2 * ratio[2]) ELSE 0

\* validation_config.get(key, 'N/A'): <<>> stands for 'N/A'
ConfigShown(validation_config, key) ==
    IF key \in DOMAIN validation_config THEN <<validation_config[key]>> ELSE <<>>

RECURSIVE DecimalStartsWith(_, _)
\* str(b) starts with str(a), for non-negative a and b
DecimalStartsWith(a, b) ==
    a = b \/ (b >= 10 /\ DecimalStartsWith(a, b \div 10))

\* f'ID: {label_id}' in text, for a text that holds f'ID: {cited}'
CitesId(label_id, cited) ==
    \/ label_id > 0 /\ cited > 0 /\ DecimalStartsWith(label_id, cited)
    \/ label_id < 0 /\ cited < 0 /\ DecimalStartsWith(0 - label_id, 0 - cited)

\* `f'ID: {label_id}' in w or label_name in w` for a warning w: only the
\* small-label and the dominance message hold 'ID: ', only the small-label
\* message holds label names, and those are catalog names or 'Label {id}',
\* never 'Unknown (ID: {id})'
Mentions(w, label_id, label_name, label_dict) ==
    \/ /\ w.kind = "small_labels"
       /\ \E i \in 1 .. Len(w.items) :
              \/ CitesId(label_id, w.items[i][2])
              \/ /\ label_id \in DOMAIN label_dict
                 /\ w.items[i][2] \in DOMAIN label_dict
                 /\ w.items[i][1] = label_name
    \/ /\ w.kind = "dominant_label"
       /\ CitesId(label_id, w.items[1])

\* the lines up to the first rule; now is datetime.now() to the second
ReportHeader(patient_id, scan_name, nifti_file_path, now) ==
    << <<"# Segmentation Validation Report">>, <<"">>,
       <<"**Patient ID:**", patient_id>>,
       <<"**Scan:**", scan_name>>,
       <<"**Input File:**", nifti_file_path.name>>,
       <<"**Generated:**", now>>,
       <<"">>, <<"---">>, <<"">> >>

\* a status that does not look at the warnings
ReportStatusIgnoringWarnings(result) ==
    << <<"## Overall Status">>, <<"">>,
       IF result.valid THEN <<"PASSED">> ELSE <<"FAILED", Len(result.errors)>>,
       <<"">> >>

\* ## Overall Status
ReportStatus(result) ==
    << <<"## Overall Status">>, <<"">>,
       IF result.valid /\ Len(result.warnings) = 0
       THEN <<"PASSED">>
       ELSE IF result.valid
            THEN <<"PASSED WITH WARNINGS", Len(result.warnings)>>
            ELSE <<"FAILED", Len(result.errors)>>,
       <<"">> >>

\* ## Statistics, with the cleanup table when the volume was cleaned
ReportStatistics(result) ==
    << <<"## Statistics">>, <<"">>, <<"| Metric | Value |">>, <<"|--------|-------|">>,
       <<"Total Voxels", result.stats.total_voxels>>,
       <<"Segmented Voxels", result.stats.segmented_voxels>>,
       <<"Segmentation Ratio", PercentTwoPlaces(result.stats.segmentation_ratio)>>,
       <<"Number of Labels", result.stats.num_labels>> >>
    \o (IF Len(result.stats.label_ids) > 0
        THEN << <<"Label IDs", Take(result.stats.label_ids, 20),
                  Max2(Len(result.stats.label_ids) - 20, 0)>> >>
        ELSE <<>>)
    \o (IF result.cleaned
        THEN << <<"">>, <<"### Cleanup Statistics">>, <<"">>,
                <<"| Operation | Count |">>, <<"|-----------|-------|">> >>
             \o (IF "components_removed" \in DOMAIN result.stats
                 THEN << <<"Small Components Removed", result.stats.components_removed>> >>
                 ELSE <<>>)
             \o (IF "artifacts_removed" \in DOMAIN result.stats
                 THEN << <<"Artifact Voxels Removed", result.stats.artifacts_removed>> >>
                 ELSE <<>>)
        ELSE <<>>)
    \o << <<"">> >>

\* ## Errors or ## Warnings: the numbered messages, nothing for an empty list
ReportFindings(title, findings) ==
    IF Len(findings) > 0
    THEN << <<title>>, <<"">> >>
         \o [i \in 1 .. Len(findings) |-> <<i, findings[i]>>]
         \o << <<"">> >>
    ELSE <<>>

\* ## Validation Configuration
ReportConfiguration(validation_config) ==
    << <<"## Validation Configuration">>, <<"">>,
       <<"| Setting | Value |">>, <<"|---------|-------|">>,
       <<"Validation Enabled", ConfigShown(validation_config, "enable_validation")>>,
       <<"Cleanup Enabled", ConfigShown(validation_config, "enable_cleanup")>>,
       <<"Min Voxels per Label", ConfigShown(validation_config, "min_voxels_per_label")>>,
       <<"Min Voxels per Component",
         ConfigShown(validation_config, "min_voxels_per_component")>>,
       <<"Max Segmentation Ratio",
         ConfigShown(validation_config, "max_segmentation_ratio")>>,
       <<"Min Segmentation Ratio",
         ConfigShown(validation_config, "min_segmentation_ratio")>>,
       <<"">> >>

\* LABEL_DICT.get(label_id, {}).get('name', f'Unknown (ID: {label_id})')
ReportLabelName(label_dict, label_id) ==
    IF label_id \in DOMAIN label_dict /\ "name" \in DOMAIN label_dict[label_id]
    THEN label_dict[label_id].name
    ELSE <<"Unknown", label_id>>

\* ## Label Details: one row per label ID with the number of warnings that
\* mention it (0 is shown as OK)
ReportLabelDetails(result, label_dict) ==
    IF Len(result.stats.label_ids) > 0
    THEN << <<"## Label Details">>, <<"">>,
            <<"| Label ID | Label Name | Status |">>,
            <<"|----------|-----------|--------|">> >>
         \o [i \in 1 .. Len(result.stats.label_ids) |->
                <<result.stats.label_ids[i],
                  ReportLabelName(label_dict, result.stats.label_ids[i]),
                  Cardinality({k \in 1 .. Len(result.warnings) :
                                   Mentions(result.warnings[k],
                                            result.stats.label_ids[i],
                                            ReportLabelName(label_dict,
                                                            result.stats.label_ids[i]),
                                            label_dict)})>>]
         \o << <<"">> >>
    ELSE <<>>

\* the recommendation rules, in program order
TriggeredRecommendations(result) ==
    (IF Len(result.errors) > 0 THEN << <<"- **Review errors immediately**">> >> ELSE <<>>)
    \o (IF Len(result.warnings) > 5
        THEN << <<"- **Multiple warnings detected**">> >> ELSE <<>>)
    \o (IF /\ result.stats.segmentation_ratio[2] > 0
           /\ 10 * result.stats.segmentation_ratio[1] > 9 * result.stats.segmentation_ratio[2]
        THEN << <<"- **High segmentation ratio**">> >> ELSE <<>>)
    \o (IF \/ result.stats.segmentation_ratio[2] = 0
           \/ 100 * result.stats.segmentation_ratio[1] < result.stats.segmentation_ratio[2]
        THEN << <<"- **Low segmentation ratio**">> >> ELSE <<>>)
    \o (IF result.stats.num_labels = 0 THEN << <<"- **No labels found**">> >> ELSE <<>>)
    \o (IF result.cleaned THEN << <<"- **Cleanup was applied**">> >> ELSE <<>>)

\* the 'no issues' entry appended whatever the list holds
RecommendationsWithNone(recommendations) ==
    recommendations \o << <<"- **No issues detected**">> >>

\* `if not recommendations: recommendations.append(...)`
RecommendationsOrNone(recommendations) ==
    IF Len(recommendations) = 0
    THEN << <<"- **No issues detected**">> >>
    ELSE recommendations

\* ## Recommendations and the footer
ReportRecommendations(result) ==
    << <<"## Recommendations">>, <<"">> >>
    \o RecommendationsOrNone(TriggeredRecommendations(result))
    \o << <<"">>, <<"---">>, <<"">>,
          <<"*This report was automatically generated*">>, <<"">>,
          <<"*For more information*">> >>

\* everything under `if validation_results:`, for result = validation_results[-1]
ReportBody(result, validation_config, label_dict) ==
    ReportStatus(result)
    \o ReportStatistics(result)
    \o ReportFindings("## Errors", result.errors)
    \o ReportFindings("## Warnings", result.warnings)
    \o ReportConfiguration(validation_config)
    \o ReportLabelDetails(result, label_dict)
    \o ReportRecommendations(result)

\* a report that repeats the generation time in a last footer line
GenerateValidationReportStampedFooter(validation_results, patient_id, scan_name, nifti_file_path, validation_config, now) ==
    ReportHeader(patient_id, scan_name, nifti_file_path, now)
    \o (IF Len(validation_results) > 0
        THEN ReportBody(validation_results[Len(validation_results)], validation_config,
                        LabelDict)
             \o << <<"*Generated*", now>> >>
        ELSE <<>>)

\* generate_validation_report; LABEL_DICT is the module's catalog
GenerateValidationReport(validation_results, patient_id, scan_name, nifti_file_path, validation_config, now) ==
    ReportHeader(patient_id, scan_name, nifti_file_path, now)
    \o (IF Len(validation_results) > 0
        THEN ReportBody(validation_results[Len(validation_results)], validation_config,
                        LabelDict)
        ELSE <<>>)

-----------------------------------------------------------------------------
(* ConfigManager: a JSON value is held as a sequence (a list of records, or
   the (key, value) pairs of an object in file order); an Optional is <<>>
   for None and <<x>> for the value x *)

LABEL_COLORS_FILE == "vista3d_label_colors.json"

LABEL_DICT_FILE == "vista3d_label_dict.json"

LABEL_SETS_FILE == "vista3d_label_sets.json"

\* ConfigManager.__init__
NewConfigManager ==
    [_label_colors |-> <<>>, _label_dict |-> <<>>, _label_sets |-> <<>>,
     _using_fallback_label_colors |-> FALSE]

\* _load_json: the parsed file, None when it is missing or does not parse
LoadJson(dir, filename) ==
    IF dir[filename].status = "ok" THEN <<dir[filename].json>> ELSE <<>>

\* `x or {}`, `x or []` for an Optional x
OrEmpty(optional) == IF optional = <<>> THEN <<>> ELSE optional[1]

\* a property's outcome: the object, the files opened so far, the value returned
Got(self, opened, value) == [self |-> self, loads |-> opened, value |-> value]

\* the label_dict property
LabelDictProperty(self, dir, opened) ==
    IF self._label_dict = <<>>
    THEN Got([self EXCEPT !._label_dict = LoadJson(dir, LABEL_DICT_FILE)],
             Append(opened, LABEL_DICT_FILE),
             OrEmpty(LoadJson(dir, LABEL_DICT_FILE)))
    ELSE Got(self, opened, OrEmpty(self._label_dict))

\* the label_sets property
LabelSetsProperty(self, dir, opened) ==
    IF self._label_sets = <<>>
    THEN Got([self EXCEPT !._label_sets = LoadJson(dir, LABEL_SETS_FILE)],
             Append(opened, LABEL_SETS_FILE),
             OrEmpty(LoadJson(dir, LABEL_SETS_FILE)))
    ELSE Got(self, opened, OrEmpty(self._label_sets))

\* the first three bytes of hashlib.sha1(name.encode('utf-8')).digest()
Sha1Head(name) ==
    CASE name = "background" -> <<36, 138, 32>>
      [] name = "liver"      -> <<69, 176, 130>>
      [] name = "spleen"     -> <<218, 92, 89>>
      [] name = "pancreas"   -> <<114, 191, 219>>

\* the channels taken from the digest without the offset and the modulus
DefaultColorRawDigest(name, label_id) ==
    IF label_id = 0
    THEN <<0, 0, 0>>
    ELSE [c \in 1 .. 3 |-> Sha1Head(name)[c]]

\* the color of one label in _generate_default_label_colors
DefaultColor(name, label_id) ==
    IF label_id = 0
    THEN <<0, 0, 0>>
    ELSE [c \in 1 .. 3 |-> 64 + (Sha1Head(name)[c] % 192)]

RECURSIVE SortedById(_)
\* sorted(label_dict.items(), key=lambda item: item[1]): stable, so items of
\* one ID keep their file order
SortedById(items) ==
    IF Len(items) = 0 THEN <<>>
    ELSE LET i == CHOOSE k \in 1 .. Len(items) :
                      /\ \A j \in 1 .. Len(items) : items[k][2] <= items[j][2]
                      /\ \A j \in 1 .. (k - 1) : items[k][2] < items[j][2]
         IN  <<items[i]>>
             \o SortedById(SubSeq(items, 1, i - 1) \o SubSeq(items, i + 1, Len(items)))

\* the generated_colors.append(...) loop over the sorted items
ColorEntries(sorted) ==
    [i \in 1 .. Len(sorted) |->
        [id |-> sorted[i][2], name |-> sorted[i][1],
         color |-> DefaultColor(sorted[i][1], sorted[i][2])]]

\* _generate_default_label_colors, given what self.label_dict returned
GenerateDefaultLabelColors(label_dict) ==
    IF Len(label_dict) = 0 THEN <<>> ELSE ColorEntries(SortedById(label_dict))

\* the fallback branch of label_colors: d is the outcome of self.label_dict
FallbackLabelColors(d) ==
    Got([d.self EXCEPT !._label_colors = <<GenerateDefaultLabelColors(d.value)>>,
                       !._using_fallback_label_colors = TRUE],
        d.loads,
        GenerateDefaultLabelColors(d.value))

\* `if label_colors:` for what _load_json returned
Truthy(optional) == optional # <<>> /\ Len(optional[1]) > 0

\* the label_colors property
LabelColorsProperty(self, dir, opened) ==
    IF self._label_colors = <<>>
    THEN IF Truthy(LoadJson(dir, LABEL_COLORS_FILE))
         THEN Got([self EXCEPT !._label_colors = LoadJson(dir, LABEL_COLORS_FILE),
                               !._using_fallback_label_colors = FALSE],
                  Append(opened, LABEL_COLORS_FILE),
                  LoadJson(dir, LABEL_COLORS_FILE)[1])
         ELSE FallbackLabelColors(
                  LabelDictProperty(self, dir, Append(opened, LABEL_COLORS_FILE)))
    ELSE Got(self, opened, OrEmpty(self._label_colors))

\* refresh_cache
RefreshedCache(self) ==
    [self EXCEPT !._label_colors = <<>>, !._label_dict = <<>>, !._label_sets = <<>>]

-----------------------------------------------------------------------------
(* The batch driver (main): what it does with one scan whose inference
   returned a label volume *)

\* validation_config = {...} built from the imported constants
ValidationConfig(c) ==
    [enable_cleanup           |-> c.ENABLE_SEGMENTATION_CLEANUP,
     min_voxels_per_label     |-> c.MIN_VOXELS_PER_LABEL,
     min_voxels_per_component |-> c.MIN_VOXELS_PER_COMPONENT,
     max_segmentation_ratio   |-> c.MAX_SEGMENTATION_RATIO,
     min_segmentation_ratio   |-> c.MIN_SEGMENTATION_RATIO]

\* validation_config_for_report = {...}
ValidationConfigForReport(c) ==
    [enable_validation |-> c.ENABLE_SEGMENTATION_VALIDATION] @@ ValidationConfig(c)

\* the dictionary validate_and_clean returns, with the two keys main adds
ValidationResult(r, scan_name, nifti_file) ==
    [valid |-> r.valid, warnings |-> r.warnings, errors |-> r.errors,
     stats |-> r.stats, cleaned |-> r.cleaned, cleaned_img |-> r.cleaned_img,
     scan_name |-> scan_name, nifti_file |-> nifti_file]

\* the try block under `if ENABLE_SEGMENTATION_VALIDATION`: the validation
\* result, or None when validation is off or an exception was caught; input
\* is the outcome of loading the input scan
Validated(c, raw_nifti_img, input, scan_name, nifti_file) ==
    IF c.ENABLE_SEGMENTATION_VALIDATION /\ ~input.raises
    THEN <<ValidationResult(ValidateAndClean(raw_nifti_img, input.img, LabelDict,
                                             ValidationConfig(c)),
                            scan_name, nifti_file)>>
    ELSE <<>>

\* the cleaned image taken only from a result that is also valid
UseCleanedWhenValid(validation_result) ==
    validation_result.cleaned /\ validation_result.valid

\* `if validation_result['cleaned']: raw_nifti_img = validation_result['cleaned_img']`
UseCleaned(validation_result) == validation_result.cleaned

\* raw_nifti_img as it stands at nib.save; validated is None or the result
ImageToSave(raw_nifti_img, validated) ==
    IF validated # <<>> /\ UseCleaned(validated[1])
    THEN validated[1].cleaned_img[1]
    ELSE raw_nifti_img

\* create_individual_voxel_files: one file per catalog label that has voxels
\* (keyed here by the label ID its file name stands for), holding the label
\* on its own voxels and 0 elsewhere
CreateIndividualVoxelFiles(segmentation_img, label_dict) ==
    [label_id \in {l \in DOMAIN label_dict :
                       /\ l > 0
                       /\ \E v \in DOMAIN segmentation_img.data :
                              ToInt16(segmentation_img.data[v]) = l} |->
        [v \in DOMAIN segmentation_img.data |->
            IF ToInt16(segmentation_img.data[v]) = label_id THEN label_id ELSE 0]]

\* what main leaves behind for the scan: all.nii.gz and the per-label files
SavedScan(raw_nifti_img, input, validated, image) ==
    [outcome |-> "saved", raw |-> raw_nifti_img, input |-> input,
     validated |-> validated,
     all_nii |-> image,
     voxels |-> CreateIndividualVoxelFiles(image, LabelDict)]

-----------------------------------------------------------------------------
(* Inputs *)

RECURSIVE SubsetsUpTo(_, _)
\* the subsets of S with at most k elements
SubsetsUpTo(S, k) ==
    IF k = 0 THEN {{}}
    ELSE LET P == SubsetsUpTo(S, k - 1)
         IN  P \cup {T \cup {x} : T \in P, x \in S}

\* the volumes of a shape in which `rest` fills every voxel outside a set of at
\* most k voxels, and those k voxels take values from `labels`
VolumesWith(shape, rest, labels, k) ==
    UNION {{[v \in Voxels(shape) |-> IF v \in S THEN f[v] ELSE rest] : f \in [S -> labels]} :
               S \in SubsetsUpTo(Voxels(shape), k)}

\* a volume whose first n voxels, in raster order, carry the n distinct
\* labels base + 1 .. base + n, one voxel each
ManyLabels(shape, base, n) ==
    [v \in Voxels(shape) |->
        IF Raster(shape, v) < n THEN base + 1 + Raster(shape, v) ELSE 0]

\* a volume holding one two-voxel component of label 1 that lies across the
\* first two rows at column k
EdgeCrossing(shape, k) ==
    [v \in Voxels(shape) |-> IF v \in {<<0, 0, k>>, <<0, 1, k>>} THEN 1 ELSE 0]

\* the label volumes an inference call may hand over: sparse ones (a few
\* labeled voxels, among them unknown and negative IDs) on three small
\* shapes, dense ones (one label everywhere but for a few voxels), ones
\* with many labels (5 or 6 labels two of which are in the catalog, 10 or 11
\* labels none of which is), and flat ones with a single two-voxel
\* component, alone or with one stray voxel
InputImages ==
    LET sparse ==
            {[shape |-> <<2, 2, 2>>, data |-> d] :
                 d \in VolumesWith(<<2, 2, 2>>, 0, {1, 2}, MaxLabeled)}
            \cup {[shape |-> <<2, 6, 1>>, data |-> d] :
                      d \in VolumesWith(<<2, 6, 1>>, 0, {1, 0 - 1}, MaxLabeled)}
            \cup {[shape |-> <<2, 5, 1>>, data |-> d] :
                      d \in VolumesWith(<<2, 5, 1>>, 0, {7}, MaxLabeled)}
        dense ==
            {[shape |-> <<3, 4, 1>>, data |-> d] :
                 d \in VolumesWith(<<3, 4, 1>>, 1, {0, 7}, MaxHoles)}
            \cup {[shape |-> <<2, 5, 1>>, data |-> d] :
                      d \in VolumesWith(<<2, 5, 1>>, 1, {2}, MaxHoles)}
        many ==
            {[shape |-> <<3, 4, 1>>, data |-> ManyLabels(<<3, 4, 1>>, c[1], c[2])] :
                 c \in {<<0, 5>>, <<0, 6>>, <<10, 10>>, <<10, 11>>}}
        crossing ==
            {[shape |-> <<1, 3, 6>>, data |-> EdgeCrossing(<<1, 3, 6>>, k)] : k \in 0 .. 5}
            \cup {[shape |-> <<1, 3, 6>>,
                   data |-> [EdgeCrossing(<<1, 3, 6>>, 5) EXCEPT ![<<0, 2, 0>>] = l]] :
                      l \in {1, 2}}
    IN  {[shape |-> i.shape, affine |-> 0, data |-> i.data] :
             i \in sparse \cup dense \cup many \cup crossing}

\* the reference scans a caller may pass: none, a matching one, one of another
\* shape, one whose affine is off by 1.1e-3
ReferenceImages(seg) ==
    { <<>>,
      <<[shape |-> seg.shape, affine |-> seg.affine]>>,
      <<[shape |-> <<seg.shape[1], seg.shape[2], seg.shape[3] + 1>>, affine |-> seg.affine]>>,
      <<[shape |-> seg.shape, affine |-> seg.affine + 11]>> }

NoConfig == [k \in {} |-> 0]

\* the validation_config dictionaries a caller may pass
Configs ==
    { NoConfig,
      [enable_cleanup |-> FALSE],
      [enable_cleanup |-> TRUE, min_voxels_per_label |-> 1, min_voxels_per_component |-> 2,
       max_segmentation_ratio |-> [num |-> 9, den |-> 10],
       min_segmentation_ratio |-> [num |-> 1, den |-> 10]],
      [enable_cleanup |-> TRUE, min_voxels_per_label |-> 1, min_voxels_per_component |-> 1],
      [max_segmentation_ratio |-> [num |-> 1, den |-> 8],
       min_segmentation_ratio |-> [num |-> 1, den |-> 2]] }

\* the configs a SegmentationValidator is constructed with on its own
ValidatorConfigs == {c \in Configs : "enable_cleanup" \notin DOMAIN c \/ c.enable_cleanup}

\* the (reference, config) pairs validate_and_clean is called with
ValidateAndCleanInputs(seg) ==
    {<<r, NoConfig>> : r \in ReferenceImages(seg)} \cup {<<<<>>, c>> : c \in Configs}

\* the min_voxels arguments remove_small_components is called with
MinVoxelsArgs == {<<>>, <<1>>, <<2>>, <<3>>}

-----------------------------------------------------------------------------
(* The caller *)

\* nothing has been read from the configuration directory
ConfigUnused ==
    /\ config_manager = NewConfigManager
    /\ conf_dir = <<>>
    /\ loads = <<>>

\* no batch is running
DriverUnused ==
    /\ constants = <<>>
    /\ patient_validation_results = <<>>
    /\ voxels_dir = <<>>

Init ==
    /\ seg_img \in InputImages
    /\ pc = "ready"
    /\ ret = [op |-> "none"]
    /\ prior = <<>>
    /\ ConfigUnused
    /\ DriverUnused

\* a call on the array `given` returned
Returned(op, args, given, result) ==
    /\ pc' = "returned"
    /\ ret' = [op |-> op, args |-> args, given |-> given, result |-> result]
    /\ UNCHANGED <<conf_vars, driver_vars>>

CallValidateDimensions ==
    /\ pc = "ready"
    /\ \E r \in ReferenceImages(seg_img) :
           Returned("validate_dimensions", <<r>>, seg_img.data,
                    ValidateDimensions(seg_img, r))
    /\ UNCHANGED <<seg_img, prior>>

CallValidateLabels ==
    /\ pc = "ready"
    /\ Returned("validate_labels", <<>>, seg_img.data,
                ValidateLabels(seg_img.data, LabelDict))
    /\ UNCHANGED <<seg_img, prior>>

CallValidateVoxelCounts ==
    /\ pc = "ready"
    /\ \E c \in ValidatorConfigs, total_voxels \in {Cardinality(DOMAIN seg_img.data), 0} :
           Returned("validate_voxel_counts", <<c, total_voxels>>, seg_img.data,
                    ValidateVoxelCounts(seg_img.data, LabelDict, total_voxels, c))
    /\ UNCHANGED <<seg_img, prior>>

CallValidateSpatialConsistency ==
    /\ pc = "ready"
    /\ \E c \in ValidatorConfigs :
           Returned("validate_spatial_consistency", <<c>>, seg_img.data,
                    ValidateSpatialConsistency(seg_img.data, seg_img.shape, c))
    /\ UNCHANGED <<seg_img, prior>>

CallValidateStatistics ==
    /\ pc = "ready"
    /\ Returned("validate_statistics", <<>>, seg_img.data,
                ValidateStatistics(seg_img.data))
    /\ UNCHANGED <<seg_img, prior>>

\* remove_small_components(data, min_voxels) on the caller's array
RunRemoveSmallComponents(data, min_voxels) ==
    \E r \in {RemoveSmallComponents(data, seg_img.shape, min_voxels)} :
        /\ Returned("remove_small_components", <<min_voxels>>, data,
                    [data |-> r.data, removed |-> r.count])
        /\ seg_img' = [seg_img EXCEPT !.data = r.arg]

\* clean_artifacts(data) on the caller's array
RunCleanArtifacts(data) ==
    \E r \in {CleanArtifacts(data, seg_img.shape)} :
        /\ Returned("clean_artifacts", <<>>, data,
                    [data  |-> r.data,
                     stats |-> [edge_voxels_removed |-> r.count,
                                total_cleaned       |-> r.count]])
        /\ seg_img' = [seg_img EXCEPT !.data = r.arg]

CallRemoveSmallComponents ==
    /\ pc = "ready"
    /\ \E m \in MinVoxelsArgs :
           RunRemoveSmallComponents(seg_img.data, MinVoxelsArg(m, NoConfig))
    /\ UNCHANGED prior

CallCleanArtifacts ==
    /\ pc = "ready"
    /\ RunCleanArtifacts(seg_img.data)
    /\ UNCHANGED prior

CallValidateAndClean ==
    /\ pc = "ready"
    /\ \E in \in ValidateAndCleanInputs(seg_img) :
           \E r \in {ValidateAndClean(seg_img, in[1], LabelDict, in[2])} :
               /\ Returned("validate_and_clean", in, seg_img.data,
                           [valid |-> r.valid, warnings |-> r.warnings,
                            errors |-> r.errors, stats |-> r.stats,
                            cleaned |-> r.cleaned, cleaned_img |-> r.cleaned_img])
               /\ seg_img' = [seg_img EXCEPT !.data = r.arg]
    /\ UNCHANGED prior

\* the caller runs remove_small_components again, with the same threshold,
\* on the volume it returned
ReapplyRemoveSmallComponents ==
    /\ pc = "returned"
    /\ ret.op = "remove_small_components"
    /\ Len(prior) < MaxReapply
    /\ RunRemoveSmallComponents(ret.result.data, ret.args[1])
    /\ prior' = Append(prior, ret.result.removed)

\* the caller runs clean_artifacts again on the volume it returned
ReapplyCleanArtifacts ==
    /\ pc = "returned"
    /\ ret.op = "clean_artifacts"
    /\ Len(prior) < MaxReapply
    /\ RunCleanArtifacts(ret.result.data)
    /\ prior' = Append(prior, ret.result.stats.total_cleaned)

Next ==
    \/ CallValidateDimensions
    \/ CallValidateLabels
    \/ CallValidateVoxelCounts
    \/ CallValidateSpatialConsistency
    \/ CallValidateStatistics
    \/ CallRemoveSmallComponents
    \/ CallCleanArtifacts
    \/ CallValidateAndClean
    \/ ReapplyRemoveSmallComponents
    \/ ReapplyCleanArtifacts

Spec == Init /\ [][Next]_vars

-----------------------------------------------------------------------------
(* The report of a scan: validate_and_clean, then generate_validation_report
   on its result, possibly called again with the same arguments *)

\* the scans reported on: the volumes with at most one labeled voxel, the
\* dense ones and the ones with many labels
ScanImages ==
    {i \in InputImages : CountNonzero(i.data) <= 1 \/ CountNonzero(i.data) >= 5}

\* the readings of datetime.now(), to the second
Clock == 1 .. MaxClock

\* the identifying arguments of generate_validation_report
PatientId == "PA00000002"

ScanName == "2.5MM_ARTERIAL_3"

NiftiFilePath == [parent |-> "output/PA00000002/nifti", name |-> "2.5MM_ARTERIAL_3.nii.gz"]

ReportInit ==
    /\ seg_img \in ScanImages
    /\ pc = "ready"
    /\ ret = [op |-> "none"]
    /\ prior = <<>>
    /\ ConfigUnused
    /\ DriverUnused

\* generate_validation_report(args) called when the clock reads `now`
Reported(args, now) ==
    /\ pc' = "reported"
    /\ ret' = [op |-> "generate_validation_report", args |-> args, at |-> now,
               result |-> GenerateValidationReport(args[1], args[2], args[3],
                                                   args[4], args[5], now)]
    /\ UNCHANGED <<conf_vars, driver_vars>>

\* the report on the result validate_and_clean has just returned
CallGenerateValidationReport ==
    /\ pc = "returned"
    /\ ret.op = "validate_and_clean"
    /\ \E now \in Clock :
           Reported(<<<<ret.result>>, PatientId, ScanName, NiftiFilePath, ret.args[2]>>, now)
    /\ UNCHANGED <<seg_img, prior>>

\* the same call once more, the clock not having gone back
RepeatGenerateValidationReport ==
    /\ pc = "reported"
    /\ Len(prior) < MaxReapply
    /\ \E now \in {t \in Clock : t >= ret.at} : Reported(ret.args, now)
    /\ prior' = Append(prior, [at |-> ret.at, report |-> ret.result])
    /\ UNCHANGED seg_img

ReportNext ==
    \/ CallValidateAndClean
    \/ CallGenerateValidationReport
    \/ RepeatGenerateValidationReport

ReportSpec == ReportInit /\ [][ReportNext]_vars

-----------------------------------------------------------------------------
(* The report generator on the result lists a caller may pass *)

\* n warnings of the label check
Warnings(n) ==
    [i \in 1 .. n |-> Finding("label", "unknown_labels", 1, <<100 + i>>, FALSE)]

\* a result dictionary with the given numbers of errors and warnings,
\* segmentation ratio (segmented, total), number of labels and cleaned flag
ResultWith(errors, warnings, ratio, num_labels, cleaned) ==
    [valid    |-> errors = 0,
     warnings |-> Warnings(warnings),
     errors   |-> [i \in 1 .. errors |-> Finding("statistical", "empty", 0, <<>>, FALSE)],
     stats    |-> (IF cleaned
                   THEN [components_removed |-> 1, artifacts_removed |-> 0]
                   ELSE [k \in {} |-> 0])
                  @@ [total_voxels       |-> ratio[2],
                      segmented_voxels   |-> ratio[1],
                      segmentation_ratio |-> ratio,
                      num_labels         |-> num_labels,
                      label_ids          |-> [i \in 1 .. num_labels |-> i]],
     cleaned  |-> cleaned,
     cleaned_img |-> <<>>]

\* the results a list may end with: none, one, five or six warnings, with and
\* without an error, ratios at and on both sides of 1% and 90%
LastResults ==
    {ResultWith(e, w, r, n, c) :
         e \in {0, 1}, w \in {0, 1, 5, 6},
         r \in {<<0, 0>>, <<0, 100>>, <<1, 100>>, <<9, 10>>, <<91, 100>>},
         n \in {0, 1}, c \in BOOLEAN}

\* the results that may come before the last one
EarlierResults ==
    {ResultWith(0, 0, <<1, 2>>, 1, FALSE), ResultWith(1, 1, <<1, 2>>, 1, TRUE)}

RECURSIVE ListsUpTo(_, _)
\* the sequences of at most n elements of S
ListsUpTo(S, n) ==
    IF n = 0 THEN {<<>>}
    ELSE ListsUpTo(S, n - 1)
         \cup {Append(l, x) : l \in {m \in ListsUpTo(S, n - 1) : Len(m) = n - 1}, x \in S}

\* the lists generate_validation_report is called with: the empty one, and
\* up to MaxEarlier earlier results followed by a last one
ResultLists ==
    {<<>>} \cup {Append(l, r) : l \in ListsUpTo(EarlierResults, MaxEarlier), r \in LastResults}

GeneratorInit ==
    /\ seg_img = <<>>
    /\ pc = "ready"
    /\ ret = [op |-> "none"]
    /\ prior = <<>>
    /\ ConfigUnused
    /\ constants = <<>>
    /\ patient_validation_results \in ResultLists
    /\ voxels_dir = <<>>

\* generate_validation_report on the list the caller holds
GenerateReportOfList ==
    /\ pc = "ready"
    /\ \E now \in Clock :
           Reported(<<patient_validation_results, PatientId, ScanName, NiftiFilePath,
                      [enable_validation |-> TRUE, enable_cleanup |-> TRUE]>>, now)
    /\ UNCHANGED <<seg_img, prior>>

GeneratorNext == GenerateReportOfList

GeneratorSpec == GeneratorInit /\ [][GeneratorNext]_vars

-----------------------------------------------------------------------------
(* The configuration manager and its readers *)

\* a file of the configuration directory
Missing == [status |-> "missing", json |-> <<>>]

Unparsable == [status |-> "unparsable", json |-> <<>>]

JsonFile(json) == [status |-> "ok", json |-> json]

\* the states vista3d_label_colors.json may be in
LabelColorsFiles ==
    { Missing, Unparsable, JsonFile(<<>>),
      JsonFile(<< [id |-> 1, name |-> "liver", color |-> <<255, 0, 0>>],
                  [id |-> 2, name |-> "spleen", color |-> <<0, 255, 0>>] >>) }

\* the states vista3d_label_dict.json may be in: absent, broken, empty, in ID
\* order, out of ID order, and with the IDs of two names exchanged
LabelDictFiles ==
    { Missing, Unparsable, JsonFile(<<>>),
      JsonFile(<< <<"background", 0>>, <<"liver", 1>>, <<"spleen", 2>> >>),
      JsonFile(<< <<"spleen", 2>>, <<"pancreas", 3>>, <<"liver", 1>>,
                  <<"background", 0>> >>),
      JsonFile(<< <<"liver", 2>>, <<"spleen", 1>> >>) }

\* the states vista3d_label_sets.json may be in
LabelSetsFiles ==
    { Missing, Unparsable, JsonFile(<< <<"abdomen", <<"liver", "spleen">>>> >>) }

ConfigInit ==
    /\ seg_img = <<>>
    /\ pc = "ready"
    /\ ret = [op |-> "none"]
    /\ prior = <<>>
    /\ config_manager = NewConfigManager
    /\ \E colors \in LabelColorsFiles, dict \in LabelDictFiles, sets \in LabelSetsFiles :
           conf_dir = (LABEL_COLORS_FILE :> colors) @@ (LABEL_DICT_FILE :> dict)
                          @@ (LABEL_SETS_FILE :> sets)
    /\ loads = <<>>
    /\ DriverUnused

\* a property read that returned: got is its outcome
Read(op, got) ==
    /\ Len(got.loads) <= MaxLoads
    /\ config_manager' = got.self
    /\ loads' = got.loads
    /\ ret' = [op |-> op, result |-> got.value,
               fallback |-> got.self._using_fallback_label_colors]

\* one run of the fallback: the dictionary it read and the list it generated
Generated(label_dict) ==
    [label_dict |-> label_dict, colors |-> GenerateDefaultLabelColors(label_dict)]

\* config_manager.label_colors; prior keeps the last runs of the fallback,
\* newest first
ReadLabelColors ==
    /\ Read("label_colors", LabelColorsProperty(config_manager, conf_dir, loads))
    /\ prior' = IF config_manager._label_colors = <<>>
                   /\ ~Truthy(LoadJson(conf_dir, LABEL_COLORS_FILE))
                THEN Take(<<Generated(LabelDictProperty(config_manager, conf_dir, loads).value)>>
                          \o prior, 1 + MaxReapply)
                ELSE prior
    /\ UNCHANGED <<seg_img, pc, conf_dir, driver_vars>>

\* config_manager.label_dict
ReadLabelDict ==
    /\ Read("label_dict", LabelDictProperty(config_manager, conf_dir, loads))
    /\ UNCHANGED <<seg_img, pc, prior, conf_dir, driver_vars>>

\* config_manager.label_sets
ReadLabelSets ==
    /\ Read("label_sets", LabelSetsProperty(config_manager, conf_dir, loads))
    /\ UNCHANGED <<seg_img, pc, prior, conf_dir, driver_vars>>

\* config_manager.refresh_cache()
RefreshCache ==
    /\ config_manager' = RefreshedCache(config_manager)
    /\ loads' = <<>>
    /\ ret' = [op |-> "refresh_cache", opened |-> loads]
    /\ UNCHANGED <<seg_img, pc, prior, conf_dir, driver_vars>>

ConfigNext ==
    \/ ReadLabelColors
    \/ ReadLabelDict
    \/ ReadLabelSets
    \/ RefreshCache

ConfigSpec == ConfigInit /\ [][ConfigNext]_vars

-----------------------------------------------------------------------------
(* The batch driver on the scans of one patient *)

\* a label volume of the given shape and values
Image(shape, data) == [shape |-> shape, affine |-> 0, data |-> data]

\* the label volumes the inference service returns: an empty one, one
\* single-voxel label, a single voxel of a negative label, one label filling
\* the volume, and one two-voxel component reaching into a face slab
InferenceOutputs ==
    { Image(<<2, 2, 2>>, ManyLabels(<<2, 2, 2>>, 0, 0)),
      Image(<<2, 2, 2>>, ManyLabels(<<2, 2, 2>>, 0, 1)),
      Image(<<2, 2, 2>>, ManyLabels(<<2, 2, 2>>, 0 - 2, 1)),
      Image(<<2, 5, 1>>, [v \in Voxels(<<2, 5, 1>>) |-> 1]),
      Image(<<1, 3, 6>>, EdgeCrossing(<<1, 3, 6>>, 2)) }

\* the outcomes of loading the input scan for the comparison: no file
\* (input_img = None), a scan of the same grid, a scan of another shape, an
\* exception
InputOutcomes(seg) ==
    { [raises |-> FALSE, img |-> <<>>],
      [raises |-> FALSE, img |-> <<[shape |-> seg.shape, affine |-> seg.affine]>>],
      [raises |-> FALSE,
       img |-> <<[shape |-> <<seg.shape[1], seg.shape[2], seg.shape[3] + 1>>,
                  affine |-> seg.affine]>>],
      [raises |-> TRUE, img |-> <<>>] }

\* the values utils.constants may hold
DriverConstants ==
    {[ENABLE_SEGMENTATION_VALIDATION |-> ev,
      ENABLE_SEGMENTATION_CLEANUP    |-> ec,
      MIN_VOXELS_PER_LABEL           |-> m[1],
      MIN_VOXELS_PER_COMPONENT       |-> m[2],
      MAX_SEGMENTATION_RATIO         |-> DEFAULT_MAX_SEGMENTATION_RATIO,
      MIN_SEGMENTATION_RATIO         |-> DEFAULT_MIN_SEGMENTATION_RATIO] :
         ev \in BOOLEAN, ec \in BOOLEAN,
         m \in {<<DEFAULT_MIN_VOXELS_PER_LABEL, DEFAULT_MIN_VOXELS_PER_COMPONENT>>,
                <<1, 2>>}}

DriverInit ==
    /\ seg_img = <<>>
    /\ pc = "ready"
    /\ ret = [op |-> "none"]
    /\ prior = <<>>
    /\ ConfigUnused
    /\ constants \in DriverConstants
    /\ patient_validation_results = <<>>
    /\ voxels_dir = <<>>

\* the inference request of the next scan fails: nothing is saved for it
InferenceFails ==
    /\ pc = "ready"
    /\ Len(voxels_dir) < MaxScans
    /\ voxels_dir' = Append(voxels_dir, [outcome |-> "failed"])
    /\ UNCHANGED <<seg_img, pc, ret, prior, conf_vars, constants,
                   patient_validation_results>>

\* the end of the loop body, validated being None or the validation result
SaveScan(raw_nifti_img, input, validated) ==
    /\ patient_validation_results' = patient_validation_results \o validated
    /\ voxels_dir' = Append(voxels_dir,
                            SavedScan(raw_nifti_img, input, validated,
                                      ImageToSave(raw_nifti_img, validated)))

\* the loop body for a scan whose inference returned a label volume:
\* validation (when enabled), all.nii.gz, the per-label files
ProcessScan ==
    /\ pc = "ready"
    /\ Len(voxels_dir) < MaxScans
    /\ \E raw_nifti_img \in InferenceOutputs :
           \E input \in InputOutcomes(raw_nifti_img) :
               SaveScan(raw_nifti_img, input,
                        Validated(constants, raw_nifti_img, input,
                                  ScanName, NiftiFilePath.name))
    /\ UNCHANGED <<seg_img, pc, ret, prior, conf_vars, constants>>

\* after the last scan: the patient's report, from the results collected
WriteValidationReport ==
    /\ pc = "ready"
    /\ constants.ENABLE_SEGMENTATION_VALIDATION
    /\ Len(patient_validation_results) > 0
    /\ \E now \in Clock :
           Reported(<<patient_validation_results, PatientId,
                      patient_validation_results[Len(patient_validation_results)].scan_name,
                      NiftiFilePath, ValidationConfigForReport(constants)>>, now)
    /\ UNCHANGED <<seg_img, prior>>

DriverNext ==
    \/ InferenceFails
    \/ ProcessScan
    \/ WriteValidationReport

DriverSpec == DriverInit /\ [][DriverNext]_vars

-----------------------------------------------------------------------------
(* Properties *)

\* the last call was `op` and it has returned
After(op) == pc = "returned" /\ ret.op = op

\* config.get('enable_cleanup', True) of the config the last call was given
EnableCleanupGiven == ConfigGet(ret.args[2], "enable_cleanup", TRUE)

\* the kinds of the findings in a list
Kinds(findings) == {findings[i].kind : i \in 1 .. Len(findings)}

RECURSIVE PathClosure(_)
\* the transitive closure of a relation on voxels
PathClosure(R) ==
    LET step == R \cup {<<pq[1][1], pq[2][2]>> : pq \in {x \in R \X R : x[1][2] = x[2][1]}}
    IN  IF step = R THEN R ELSE PathClosure(step)

\* u and v carry the same nonzero label and a path of face-adjacent voxels
\* of that label joins them
SameLabelPaths(data) ==
    LET labeled == {v \in DOMAIN data : data[v] # 0}
    IN  PathClosure({uv \in labeled \X labeled :
                        /\ data[uv[1]] = data[uv[2]]
                        /\ (uv[1] = uv[2] \/ FaceAdjacent(uv[1], uv[2]))})

\* the voxels in which two arrays differ
Differing(a, b) == {v \in DOMAIN a : a[v] # b[v]}

\* C1: validate_and_clean returns valid = true exactly when errors is empty,
\* whatever the warnings are
C1_ValidIffNoErrors ==
    After("validate_and_clean") =>
        (ret.result.valid <=> Len(ret.result.errors) = 0)

C1_Witness ==
    /\ After("validate_and_clean")
    /\ ret.result.valid
    /\ Len(ret.result.warnings) >= 2

\* C2: with enable_cleanup false, or with no warning and no error, the result
\* of validate_and_clean has cleaned = false, cleaned_img = None and neither
\* components_removed nor artifacts_removed in stats
C2_NoCleanupUnlessEnabledAndFlagged ==
    After("validate_and_clean")
    /\ (~EnableCleanupGiven
        \/ (Len(ret.result.warnings) = 0 /\ Len(ret.result.errors) = 0))
    => /\ ~ret.result.cleaned
       /\ ret.result.cleaned_img = <<>>
       /\ {"components_removed", "artifacts_removed"} \cap DOMAIN ret.result.stats = {}

\* a volume without findings that the cleaner would have changed
C2_Witness ==
    /\ After("validate_and_clean")
    /\ EnableCleanupGiven
    /\ Len(ret.result.warnings) = 0 /\ Len(ret.result.errors) = 0
    /\ RemoveSmallComponents(ret.given, seg_img.shape,
                             MinVoxelsArg(<<>>, ret.args[2])).count > 0
    /\ ~ret.result.cleaned

\* C3: when the cleanup is attempted, cleaned = true (with cleaned_img and
\* both counts in stats) exactly when remove_small_components removed a
\* component or clean_artifacts removed a voxel; otherwise cleaned = false
\* and cleaned_img = None; a cleaned volume differs from the input
C3_CleanedIffSomethingRemoved ==
    After("validate_and_clean")
    /\ EnableCleanupGiven
    /\ (Len(ret.result.warnings) > 0 \/ Len(ret.result.errors) > 0)
    => \E r1 \in {RemoveSmallComponents(ret.given, seg_img.shape,
                                        MinVoxelsArg(<<>>, ret.args[2]))} :
       \E r2 \in {CleanArtifacts(r1.data, seg_img.shape)} :
           /\ ret.result.cleaned <=> (r1.count > 0 \/ r2.count > 0)
           /\ ret.result.cleaned =>
                  /\ ret.result.cleaned_img # <<>>
                  /\ ret.result.stats.components_removed = r1.count
                  /\ ret.result.stats.artifacts_removed = r2.count
                  /\ Differing(ret.given, ret.result.cleaned_img[1].data) # {}
           /\ ~ret.result.cleaned => ret.result.cleaned_img = <<>>

\* cleaned by the edge pass alone
C3_Witness ==
    /\ After("validate_and_clean")
    /\ ret.result.cleaned
    /\ ret.result.stats.components_removed = 0
    /\ ret.result.stats.artifacts_removed > 0

\* C4: remove_small_components zeroes exactly the voxels of the same-label
\* components smaller than min_voxels and leaves every other voxel as it was;
\* it returns the number of those components, and the nonzero count drops by
\* the sum of their sizes
C4_RemovesExactlySmallComponents ==
    After("remove_small_components") =>
        \E paths \in {SameLabelPaths(ret.given)} :
            LET component(v) == {u \in DOMAIN ret.given : <<v, u>> \in paths}
                small == {v \in DOMAIN ret.given :
                             /\ ret.given[v] # 0
                             /\ Cardinality(component(v)) < ret.args[1]}
            IN  /\ ret.result.data =
                       [v \in DOMAIN ret.given |-> IF v \in small THEN 0 ELSE ret.given[v]]
                /\ ret.result.removed = Cardinality({component(v) : v \in small})
                /\ CountNonzero(ret.given) - CountNonzero(ret.result.data)
                       = Cardinality(small)

\* one component removed, others (one of them larger than one voxel) kept
C4_Witness ==
    /\ After("remove_small_components")
    /\ ret.result.removed = 1
    /\ CountNonzero(ret.given) - CountNonzero(ret.result.data) = 1
    /\ CountNonzero(ret.result.data) >= 2

\* C5: remove_small_components run again with the same threshold on its own
\* output removes nothing and returns the same volume
C5_RemoveSmallComponentsIdempotent ==
    After("remove_small_components") /\ Len(prior) >= 1 =>
        /\ ret.result.removed = 0
        /\ ret.result.data = ret.given

\* the first run removed something and left something
C5_Witness ==
    /\ After("remove_small_components")
    /\ Len(prior) = 1
    /\ prior[1] >= 1
    /\ CountNonzero(ret.given) >= 1

\* the working array of clean_artifacts before slab 1, ..., after slab 6, for
\* the array the last call was given
EdgeStatesGiven == EdgeStates([data |-> ret.given, count |-> 0], seg_img.shape, 1)

\* C6: clean_artifacts visits the six face slabs; a slab whose fraction of
\* labeled (nonzero) voxels is strictly below 10% has all its labeled voxels
\* set to 0, a slab at 10% or more is left untouched
C6_SlabClearedIffBelowTenPercent ==
    After("clean_artifacts") =>
        \E states \in {EdgeStatesGiven} :
            /\ Len(states) = 7
            /\ states[7].data = ret.result.data
            /\ \A k \in 1 .. 6 :
                   LET slab    == EdgeMask(seg_img.shape, EdgeSlabs[k])
                       labeled == {v \in slab : states[k].data[v] # 0}
                   IN  IF 10 * Cardinality(labeled) < Cardinality(slab)
                       THEN states[k + 1].data = ZeroAt(states[k].data, labeled)
                       ELSE states[k + 1].data = states[k].data

\* C7: the count clean_artifacts returns is the number of voxels in which its
\* output differs from its input, a voxel of several slabs counting once
C7_CountIsVoxelsChanged ==
    After("clean_artifacts") =>
        /\ ret.result.stats.total_cleaned
               = Cardinality(Differing(ret.given, ret.result.data))
        /\ ret.result.stats.edge_voxels_removed = ret.result.stats.total_cleaned

\* a removed voxel that lies in more than one face slab
C7_Witness ==
    /\ After("clean_artifacts")
    /\ ret.result.stats.total_cleaned > 0
    /\ \E v \in Differing(ret.given, ret.result.data) :
           Cardinality({k \in 1 .. 6 : v \in EdgeMask(seg_img.shape, EdgeSlabs[k])}) >= 2

\* C8: after any validator check, either cleaner operation or
\* validate_and_clean, the array the caller passed holds the values it held
\* before the call
C8_CallerVolumeUnchanged ==
    pc = "returned" => seg_img.data = ret.given

\* validate_and_clean returned a cleaned volume and left the caller's alone
C8_Witness ==
    /\ After("validate_and_clean")
    /\ ret.result.cleaned
    /\ Differing(seg_img.data, ret.result.cleaned_img[1].data) # {}

\* dimension, label, voxel-count, spatial, statistical
CheckRank(check) ==
    CASE check = "dimension"   -> 1
      [] check = "label"       -> 2
      [] check = "voxel"       -> 3
      [] check = "spatial"     -> 4
      [] check = "statistical" -> 5

\* the findings of a list appear in the order of the checks
InCheckOrder(findings) ==
    \A i, j \in 1 .. Len(findings) :
        i < j => CheckRank(findings[i].check) <= CheckRank(findings[j].check)

\* C9: validate_and_clean runs the five checks in the order dimension,
\* label, voxel-count, spatial, statistical without stopping at an error, and
\* both merged lists keep the findings in that order
C9_AllChecksRunInOrder ==
    After("validate_and_clean") =>
        /\ InCheckOrder(ret.result.errors)
        /\ InCheckOrder(ret.result.warnings)
        /\ "dimension_mismatch" \in Kinds(ret.result.errors)
               <=> (ret.args[1] # <<>> /\ ret.args[1][1].shape # seg_img.shape)
        /\ "negative_labels" \in Kinds(ret.result.errors)
               <=> (\E v \in DOMAIN ret.given : ret.given[v] < 0)
        /\ "empty" \in Kinds(ret.result.errors)
               <=> (\A v \in DOMAIN ret.given : ret.given[v] = 0)
        /\ "unknown_labels" \in Kinds(ret.result.warnings)
               <=> (\E v \in DOMAIN ret.given :
                        ret.given[v] # 0 /\ ret.given[v] \notin DOMAIN LabelDict)
        /\ "under_segmentation" \in Kinds(ret.result.warnings)
               <=> /\ RatioBelow(CountNonzero(ret.given), Cardinality(DOMAIN ret.given),
                                 ConfigGet(ret.args[2], "min_segmentation_ratio",
                                           DEFAULT_MIN_SEGMENTATION_RATIO))
                   /\ ~RatioAbove(CountNonzero(ret.given), Cardinality(DOMAIN ret.given),
                                  ConfigGet(ret.args[2], "max_segmentation_ratio",
                                            DEFAULT_MAX_SEGMENTATION_RATIO))

\* an error of the first check followed by errors of two later checks
C9_Witness ==
    /\ After("validate_and_clean")
    /\ Len(ret.result.errors) >= 2
    /\ ret.result.errors[1].check = "dimension"
    /\ ret.result.errors[Len(ret.result.errors)].check = "statistical"
    /\ Len(ret.result.warnings) >= 1

\* C10: for an all-zero volume validate_and_clean returns valid = false with
\* the empty-segmentation error and no dominance warning; with enable_cleanup
\* true the cleanup is attempted and removes nothing, so cleaned = false and
\* cleaned_img = None
C10_EmptyVolume ==
    After("validate_and_clean") /\ (\A v \in DOMAIN ret.given : ret.given[v] = 0) =>
        /\ ~ret.result.valid
        /\ "empty" \in Kinds(ret.result.errors)
        /\ "dominant_label" \notin Kinds(ret.result.warnings)
        /\ ShouldClean(EnableCleanupGiven, ret.result.warnings, ret.result.errors)
               = EnableCleanupGiven
        /\ RemoveSmallComponents(ret.given, seg_img.shape,
                                 MinVoxelsArg(<<>>, ret.args[2])).count = 0
        /\ CleanArtifacts(ret.given, seg_img.shape).count = 0
        /\ ~ret.result.cleaned
        /\ ret.result.cleaned_img = <<>>

C10_Witness ==
    /\ After("validate_and_clean")
    /\ \A v \in DOMAIN ret.given : ret.given[v] = 0
    /\ EnableCleanupGiven
    /\ Len(ret.result.errors) = 1

\* the ratio thresholds the last validate_voxel_counts call was configured with
MaxRatioGiven ==
    ConfigGet(ret.args[1], "max_segmentation_ratio", DEFAULT_MAX_SEGMENTATION_RATIO)

MinRatioGiven ==
    ConfigGet(ret.args[1], "min_segmentation_ratio", DEFAULT_MIN_SEGMENTATION_RATIO)

\* segmented_voxels / total_voxels > max_segmentation_ratio for the last call
RatioExceedsMax ==
    /\ ret.args[2] > 0
    /\ Cardinality({v \in DOMAIN ret.given : ret.given[v] # 0}) * MaxRatioGiven.den
           > MaxRatioGiven.num * ret.args[2]

\* segmented_voxels / total_voxels < min_segmentation_ratio for the last
\* call, the ratio being 0 when total_voxels is 0
RatioUnderMin ==
    IF ret.args[2] > 0
    THEN Cardinality({v \in DOMAIN ret.given : ret.given[v] # 0}) * MinRatioGiven.den
             < MinRatioGiven.num * ret.args[2]
    ELSE 0 < MinRatioGiven.num

\* C11 as stated: the voxel-count check warns of over-segmentation exactly
\* when the ratio is strictly above max_segmentation_ratio and of
\* under-segmentation exactly when it is strictly below min_segmentation_ratio
C11_RatioWarningsIndependent ==
    After("validate_voxel_counts") =>
        /\ "over_segmentation" \in Kinds(ret.result.warnings) <=> RatioExceedsMax
        /\ "under_segmentation" \in Kinds(ret.result.warnings) <=> RatioUnderMin

\* C11 amended: over-segmentation is warned of exactly when the ratio is
\* strictly above max_segmentation_ratio; under-segmentation exactly when the
\* ratio is strictly below min_segmentation_ratio and not strictly above
\* max_segmentation_ratio
C11_RatioWarningsExclusive ==
    After("validate_voxel_counts") =>
        /\ "over_segmentation" \in Kinds(ret.result.warnings) <=> RatioExceedsMax
        /\ "under_segmentation" \in Kinds(ret.result.warnings)
               <=> (RatioUnderMin /\ ~RatioExceedsMax)

\* exactly max_segmentation_ratio x total_voxels voxels are labeled
C11_Witness ==
    /\ After("validate_voxel_counts")
    /\ ret.args[2] > 0
    /\ Cardinality({v \in DOMAIN ret.given : ret.given[v] # 0}) * MaxRatioGiven.den
           = MaxRatioGiven.num * ret.args[2]
    /\ Cardinality({v \in DOMAIN ret.given : ret.given[v] # 0}) > 0
    /\ "over_segmentation" \notin Kinds(ret.result.warnings)

\* the count the spatial-consistency check reported, 0 when it did not warn
SpatialCount ==
    IF Len(ret.result.warnings) = 0 THEN 0 ELSE ret.result.warnings[1].count

\* min_voxels_per_component of the validator the last check was called on
MinComponentGiven ==
    ConfigGet(ret.args[1], "min_voxels_per_component", DEFAULT_MIN_VOXELS_PER_COMPONENT)

\* C12: the spatial-consistency check counts every connected component,
\* of every present nonzero label, smaller than min_voxels_per_component, also
\* when it is the label's only component, and emits exactly one warning with
\* the total when the total is non-zero and none when it is zero
C12_CountsEverySmallComponent ==
    After("validate_spatial_consistency") =>
        \E paths \in {SameLabelPaths(ret.given)} :
            LET component(v) == {u \in DOMAIN ret.given : <<v, u>> \in paths}
                small == {component(v) : v \in {w \in DOMAIN ret.given :
                                                   /\ ret.given[w] # 0
                                                   /\ Cardinality(component(w))
                                                          < MinComponentGiven}}
            IN  /\ Len(ret.result.warnings) = IF small = {} THEN 0 ELSE 1
                /\ SpatialCount = Cardinality(small)

\* u and v differ by one step along exactly one axis
ShareFace(u, v) ==
    \E d \in 1 .. 3 :
        /\ u[d] - v[d] \in {0 - 1, 1}
        /\ \A e \in (1 .. 3) \ {d} : u[e] = v[e]

\* no voxel of v's label shares a face with v
Alone(data, v) == \A u \in DOMAIN data : data[u] = data[v] => ~ShareFace(u, v)

\* C13: components are 6-connected and of one label: a labeled voxel with no
\* face neighbour of its own label is a component of size 1 whatever touches
\* it along an edge or corner or carries another label, both for
\* remove_small_components and for the spatial-consistency check
C13_FaceConnectedSameLabel ==
    /\ After("remove_small_components") =>
           \A v \in DOMAIN ret.given :
               ret.given[v] # 0 =>
                   /\ Alone(ret.given, v) => (ret.result.data[v] = 0 <=> 1 < ret.args[1])
                   /\ ~Alone(ret.given, v) /\ ret.args[1] <= 2
                          => ret.result.data[v] = ret.given[v]
    /\ After("validate_spatial_consistency") /\ MinComponentGiven = 2 =>
           SpatialCount = Cardinality({v \in DOMAIN ret.given :
                                           /\ ret.given[v] # 0
                                           /\ Alone(ret.given, v)
                                           /\ \E u \in DOMAIN ret.given :
                                                  u # v /\ ret.given[u] = ret.given[v]})

\* two voxels of one label touching along an edge only, removed as two
\* components of size 1
C13_Witness ==
    /\ After("remove_small_components")
    /\ ret.args[1] = 2
    /\ ret.result.removed = 2
    /\ \E u, v \in DOMAIN ret.given :
           /\ u # v
           /\ ret.given[u] # 0
           /\ ret.given[u] = ret.given[v]
           /\ \A d \in 1 .. 3 : u[d] - v[d] \in {0 - 1, 0, 1}
           /\ ~ShareFace(u, v)
           /\ ret.result.data[u] = 0
           /\ ret.result.data[v] = 0

\* the last validate_and_clean call was given a reference volume of another
\* shape than the label volume's
ShapeMismatchGiven ==
    /\ After("validate_and_clean")
    /\ ret.args[1] # <<>>
    /\ ret.args[1][1].shape # seg_img.shape

\* C14: with a reference volume of a different shape, validate_and_clean
\* returns a result holding exactly one dimension-mismatch error, valid =
\* false, and the findings of the label, voxel-count, spatial and statistical
\* checks
C14_DimensionMismatchIsOneError ==
    ShapeMismatchGiven =>
        /\ Cardinality({i \in 1 .. Len(ret.result.errors) :
                            ret.result.errors[i].kind = "dimension_mismatch"}) = 1
        /\ ret.result.errors[1].kind = "dimension_mismatch"
        /\ ret.result.errors[1].items = <<seg_img.shape, ret.args[1][1].shape>>
        /\ ~ret.result.valid
        /\ ret.result.stats.total_voxels = Cardinality(DOMAIN ret.given)
        /\ "negative_labels" \in Kinds(ret.result.errors)
               <=> (\E v \in DOMAIN ret.given : ret.given[v] < 0)
        /\ "empty" \in Kinds(ret.result.errors)
               <=> (\A v \in DOMAIN ret.given : ret.given[v] = 0)
        /\ "unknown_labels" \in Kinds(ret.result.warnings)
               <=> (\E v \in DOMAIN ret.given :
                        ret.given[v] # 0 /\ ret.given[v] \notin DOMAIN LabelDict)
        /\ "small_labels" \in Kinds(ret.result.warnings)
               <=> (\E v \in DOMAIN ret.given :
                        /\ ret.given[v] # 0
                        /\ Cardinality({u \in DOMAIN ret.given : ret.given[u] = ret.given[v]})
                               < ConfigGet(ret.args[2], "min_voxels_per_label",
                                           DEFAULT_MIN_VOXELS_PER_LABEL))
        /\ "dominant_label" \in Kinds(ret.result.warnings)
               <=> (\E v \in DOMAIN ret.given :
                        /\ ret.given[v] # 0
                        /\ 10 * Cardinality({u \in DOMAIN ret.given :
                                                 ret.given[u] = ret.given[v]})
                               > 9 * Cardinality({u \in DOMAIN ret.given : ret.given[u] # 0}))

\* the mismatch error followed by a later check's error, with warnings
C14_Witness ==
    /\ ShapeMismatchGiven
    /\ Len(ret.result.errors) = 2
    /\ ret.result.errors[2].kind = "negative_labels"
    /\ Cardinality(Kinds(ret.result.warnings)) >= 2

\* seq lists the elements of the set S of integers in ascending order
AscendingListOf(seq, S) ==
    /\ Len(seq) = Cardinality(S)
    /\ {seq[i] : i \in 1 .. Len(seq)} = S
    /\ \A i \in 1 .. (Len(seq) - 1) : seq[i] < seq[i + 1]

\* the nonzero label IDs of the volume the last call was given that the
\* catalog does not hold
UnknownGiven ==
    {ret.given[v] : v \in DOMAIN ret.given} \ ({0} \cup DOMAIN LabelDict)

\* the m smallest elements of the set S of integers
Smallest(S, m) == {x \in S : Cardinality({y \in S : y < x}) < m}

\* C15 as stated: one aggregated warning exactly when some nonzero label is
\* not in the catalog, listing the first 10 unknown IDs in ascending order
\* and, when more than 10 are unknown, the count of the remaining ones
C15_UnknownLabelsRemainderCount ==
    After("validate_labels") =>
        IF UnknownGiven = {}
        THEN ret.result.warnings = <<>>
        ELSE /\ Len(ret.result.warnings) = 1
             /\ ret.result.warnings[1].kind = "unknown_labels"
             /\ AscendingListOf(ret.result.warnings[1].items, Smallest(UnknownGiven, 10))
             /\ ret.result.warnings[1].count =
                    IF Cardinality(UnknownGiven) > 10
                    THEN Cardinality(UnknownGiven) - 10
                    ELSE Cardinality(UnknownGiven)

\* C15 amended: one aggregated warning exactly when some nonzero label is
\* not in the catalog; it gives the total number of unknown IDs, lists the
\* first 10 of them in ascending order and marks the list as cut when more
\* than 10 are unknown
C15_UnknownLabelsTotalCount ==
    After("validate_labels") =>
        IF UnknownGiven = {}
        THEN ret.result.warnings = <<>>
        ELSE /\ Len(ret.result.warnings) = 1
             /\ ret.result.warnings[1].kind = "unknown_labels"
             /\ AscendingListOf(ret.result.warnings[1].items, Smallest(UnknownGiven, 10))
             /\ ret.result.warnings[1].count = Cardinality(UnknownGiven)
             /\ ret.result.warnings[1].truncated <=> Cardinality(UnknownGiven) > 10

\* eleven unknown labels, ten of them listed
C15_Witness ==
    /\ After("validate_labels")
    /\ Cardinality(UnknownGiven) = 11
    /\ Len(ret.result.warnings[1].items) = 10
    /\ ret.result.warnings[1].truncated

\* the negative values of the volume the last call was given
NegativeGiven == {x \in {ret.given[v] : v \in DOMAIN ret.given} : x < 0}

\* C16: a volume holding a negative label gets an error from the label
\* legality check that lists the negative values, and valid = false from
\* validate_and_clean; a volume without a negative voxel never gets it
C16_NegativeLabelsAreErrors ==
    /\ After("validate_labels") =>
           IF NegativeGiven = {}
           THEN ret.result.errors = <<>> /\ ret.result.valid
           ELSE /\ Len(ret.result.errors) = 1
                /\ ret.result.errors[1].kind = "negative_labels"
                /\ AscendingListOf(ret.result.errors[1].items, NegativeGiven)
                /\ ~ret.result.valid
    /\ After("validate_and_clean") =>
           IF NegativeGiven = {}
           THEN "negative_labels" \notin Kinds(ret.result.errors)
           ELSE /\ ~ret.result.valid
                /\ \E i \in 1 .. Len(ret.result.errors) :
                       /\ ret.result.errors[i].kind = "negative_labels"
                       /\ AscendingListOf(ret.result.errors[i].items, NegativeGiven)

\* a volume with a negative and a positive label, no other error
C16_Witness ==
    /\ After("validate_and_clean")
    /\ NegativeGiven # {}
    /\ \E v \in DOMAIN ret.given : ret.given[v] > 0
    /\ Len(ret.result.errors) = 1
    /\ ~ret.result.valid

\* the number of voxels of the volume the last call was given that carry x
VoxelsOf(x) == Cardinality({v \in DOMAIN ret.given : ret.given[v] = x})

\* the nonzero labels of that volume with fewer voxels than
\* min_voxels_per_label
SmallLabelsGiven ==
    {x \in {ret.given[v] : v \in DOMAIN ret.given} \ {0} :
         VoxelsOf(x) < ConfigGet(ret.args[1], "min_voxels_per_label",
                                 DEFAULT_MIN_VOXELS_PER_LABEL)}

\* the small-label warnings of the last voxel-count check
SmallLabelWarnings ==
    SelectSeq(ret.result.warnings, LAMBDA w : w.kind = "small_labels")

\* C17: the voxel-count check emits one aggregated warning for the labels
\* with strictly fewer than min_voxels_per_label voxels (none when there is
\* no such label); it gives their number and names the first 5 by catalog
\* name, or 'Label {id}' for an ID outside the catalog
C17_SmallLabelsAggregated ==
    After("validate_voxel_counts") =>
        IF SmallLabelsGiven = {}
        THEN SmallLabelWarnings = <<>>
        ELSE /\ Len(SmallLabelWarnings) = 1
             /\ SmallLabelWarnings[1].count = Cardinality(SmallLabelsGiven)
             /\ SmallLabelWarnings[1].truncated <=> Cardinality(SmallLabelsGiven) > 5
             /\ AscendingListOf([i \in 1 .. Len(SmallLabelWarnings[1].items) |->
                                    SmallLabelWarnings[1].items[i][2]],
                                Smallest(SmallLabelsGiven, 5))
             /\ \A i \in 1 .. Len(SmallLabelWarnings[1].items) :
                    LET item == SmallLabelWarnings[1].items[i]
                    IN  /\ item[1] = IF item[2] \in DOMAIN LabelDict
                                     THEN LabelDict[item[2]].name
                                     ELSE <<"Label", item[2]>>
                        /\ item[3] = VoxelsOf(item[2])

\* six small labels, five of them named, by catalog name and by 'Label {id}'
C17_Witness ==
    /\ After("validate_voxel_counts")
    /\ Cardinality(SmallLabelsGiven) = 6
    /\ Len(SmallLabelWarnings[1].items) = 5
    /\ SmallLabelWarnings[1].items[1][1] = "liver"
    /\ SmallLabelWarnings[1].items[5][1] = <<"Label", 5>>

\* C18: for a non-empty segmentation the statistical check warns of
\* dominance exactly when one label holds strictly more than 90% of the
\* nonzero voxels, and the warning names that label
C18_DominanceAboveNinetyPercent ==
    After("validate_statistics") /\ (\E v \in DOMAIN ret.given : ret.given[v] # 0) =>
        \E dominant \in {{x \in {ret.given[v] : v \in DOMAIN ret.given} \ {0} :
                             10 * VoxelsOf(x)
                                 > 9 * Cardinality({v \in DOMAIN ret.given :
                                                        ret.given[v] # 0})}} :
            /\ ret.result.errors = <<>>
            /\ IF dominant = {}
               THEN ret.result.warnings = <<>>
               ELSE /\ Len(ret.result.warnings) = 1
                    /\ ret.result.warnings[1].kind = "dominant_label"
                    /\ ret.result.warnings[1].items[1] \in dominant
                    /\ \A x \in {ret.given[v] : v \in DOMAIN ret.given} \ {0} :
                           VoxelsOf(x) <= VoxelsOf(ret.result.warnings[1].items[1])

\* one label holds exactly 90% of the nonzero voxels: no warning
C18_Witness ==
    /\ After("validate_statistics")
    /\ \E x \in {ret.given[v] : v \in DOMAIN ret.given} \ {0} :
           10 * VoxelsOf(x) = 9 * Cardinality({v \in DOMAIN ret.given : ret.given[v] # 0})
    /\ ret.result.warnings = <<>>

\* C19: when validate_and_clean cleans, remove_small_components runs first
\* on the volume and clean_artifacts second on its output: the returned
\* volume is clean_artifacts(remove_small_components(volume)) and the two
\* counts in stats are those of that order
C19_ComponentsThenArtifacts ==
    After("validate_and_clean") /\ ret.result.cleaned =>
        \E first \in {RemoveSmallComponents(ret.given, seg_img.shape,
                                            MinVoxelsArg(<<>>, ret.args[2]))} :
            \E second \in {CleanArtifacts(first.data, seg_img.shape)} :
                /\ ret.result.cleaned_img[1].data = second.data
                /\ ret.result.stats.components_removed = first.count
                /\ ret.result.stats.artifacts_removed = second.count

\* a volume on which the order shows: clean_artifacts alone would have
\* removed voxels, but component removal ran first and left it nothing
C19_Witness ==
    /\ After("validate_and_clean")
    /\ ret.result.cleaned
    /\ ret.result.stats.components_removed > 0
    /\ ret.result.stats.artifacts_removed = 0
    /\ CleanArtifacts(ret.given, seg_img.shape).count > 0

\* C20 as stated: two calls of generate_validation_report with the same
\* arguments return the same report text
C20_ReportSameOnEveryCall ==
    pc = "reported" /\ Len(prior) >= 1 => ret.result = prior[Len(prior)].report

\* C20 amended: two calls with the same arguments return reports of the
\* same length that agree in every line but the sixth, '**Generated:**',
\* which holds the time of the call; calls within the same second return the
\* same text
C20_ReportSameButForTimestamp ==
    pc = "reported" /\ Len(prior) >= 1 =>
        /\ Len(ret.result) = Len(prior[Len(prior)].report)
        /\ \A i \in 1 .. Len(ret.result) :
               i # 6 => ret.result[i] = prior[Len(prior)].report[i]
        /\ ret.result[6] = <<"**Generated:**", ret.at>>
        /\ prior[Len(prior)].report[6] = <<"**Generated:**", prior[Len(prior)].at>>
        /\ ret.at = prior[Len(prior)].at => ret.result = prior[Len(prior)].report

\* the report of a failed, cleaned scan generated twice, a second apart
C20_Witness ==
    /\ pc = "reported"
    /\ Len(prior) >= 1
    /\ ret.at > prior[Len(prior)].at
    /\ ret.args[1][1].cleaned
    /\ Len(ret.args[1][1].errors) > 0
    /\ Len(ret.args[1][1].warnings) > 0
    /\ ret.result # prior[Len(prior)].report

\* the list the report was generated from, and its last result
ResultsReported == ret.args[1]

LastReported == ResultsReported[Len(ResultsReported)]

\* C21: for a non-empty result list the report holds exactly one status
\* line, between the Overall Status heading and the Statistics heading:
\* PASSED when the last result is valid and has no warnings, PASSED WITH
\* WARNINGS (and their number) when it is valid and has warnings, FAILED (and
\* the number of errors) when it is not valid
C21_StatusLineFromLastResult ==
    pc = "reported" /\ Len(ResultsReported) > 0 =>
        /\ ret.result[10] = <<"## Overall Status">>
        /\ ret.result[11] = <<"">>
        /\ ret.result[13] = <<"">>
        /\ ret.result[14] = <<"## Statistics">>
        /\ LastReported.valid /\ Len(LastReported.warnings) = 0
               => ret.result[12] = <<"PASSED">>
        /\ LastReported.valid /\ Len(LastReported.warnings) >= 1
               => ret.result[12] = <<"PASSED WITH WARNINGS", Len(LastReported.warnings)>>
        /\ ~LastReported.valid
               => ret.result[12] = <<"FAILED", Len(LastReported.errors)>>

\* a list whose first result failed and whose last result passed with
\* warnings
C21_Witness ==
    /\ pc = "reported"
    /\ Len(ResultsReported) = 2
    /\ ~ResultsReported[1].valid
    /\ LastReported.valid
    /\ Len(LastReported.warnings) = 5
    /\ ret.result[12] = <<"PASSED WITH WARNINGS", 5>>

\* the lines of a report between the Recommendations heading (and the blank
\* after it) and the six lines of the footer
RecommendationLines(report) ==
    SubSeq(report,
           2 + (CHOOSE i \in 1 .. Len(report) : report[i] = <<"## Recommendations">>),
           Len(report) - 6)

\* the recommendations of the last report, as a set
Recommended == {RecommendationLines(ret.result)[i] :
                    i \in 1 .. Len(RecommendationLines(ret.result))}

\* the six rules, on the result reported
RulesTriggered ==
    LET r == LastReported.stats.segmentation_ratio
    IN  [errors   |-> Len(LastReported.errors) > 0,
         warnings |-> Len(LastReported.warnings) > 5,
         high     |-> r[2] > 0 /\ 10 * r[1] > 9 * r[2],
         low      |-> r[2] = 0 \/ 100 * r[1] < r[2],
         labels   |-> LastReported.stats.num_labels = 0,
         cleaned  |-> LastReported.cleaned]

\* C22: the recommendations list holds one entry for each rule that is
\* triggered (errors present, more than 5 warnings, ratio above 90%, ratio
\* below 1%, zero labels, cleanup applied) and the 'no issues detected'
\* entry exactly when no rule is triggered; it is never empty and 'no
\* issues' never comes with another entry
C22_OneRecommendationPerRule ==
    pc = "reported" /\ Len(ResultsReported) > 0 =>
        /\ <<"- **Review errors immediately**">> \in Recommended <=> RulesTriggered.errors
        /\ <<"- **Multiple warnings detected**">> \in Recommended <=> RulesTriggered.warnings
        /\ <<"- **High segmentation ratio**">> \in Recommended <=> RulesTriggered.high
        /\ <<"- **Low segmentation ratio**">> \in Recommended <=> RulesTriggered.low
        /\ <<"- **No labels found**">> \in Recommended <=> RulesTriggered.labels
        /\ <<"- **Cleanup was applied**">> \in Recommended <=> RulesTriggered.cleaned
        /\ <<"- **No issues detected**">> \in Recommended
               <=> (\A rule \in DOMAIN RulesTriggered : ~RulesTriggered[rule])
        /\ Len(RecommendationLines(ret.result))
               = IF \A rule \in DOMAIN RulesTriggered : ~RulesTriggered[rule]
                 THEN 1
                 ELSE Cardinality({rule \in DOMAIN RulesTriggered : RulesTriggered[rule]})
        /\ Cardinality(Recommended) = Len(RecommendationLines(ret.result))

\* five rules at once: an error, six warnings, a ratio of 0, no label, cleaned
C22_Witness ==
    /\ pc = "reported"
    /\ Len(ResultsReported) > 0
    /\ Len(LastReported.warnings) = 6
    /\ Len(RecommendationLines(ret.result)) = 5
    /\ <<"- **Multiple warnings detected**">> \in Recommended
    /\ <<"- **No issues detected**">> \notin Recommended

\* how many times a file has been opened since the last refresh_cache
Opened(filename) == Cardinality({i \in 1 .. Len(loads) : loads[i] = filename})

\* C23: between two refresh_cache calls each of label_colors, label_dict and
\* label_sets opens its file at most once however often it is read, also
\* when the file is missing or unparsable, and a read after refresh_cache
\* opens it again: once a property has been read since the last
\* refresh_cache, its file has been opened exactly once since then
C23_OneLoadPerRefresh ==
    /\ \A filename \in {LABEL_COLORS_FILE, LABEL_DICT_FILE, LABEL_SETS_FILE} :
           Opened(filename) <= 1
    /\ ret.op = "label_colors" => Opened(LABEL_COLORS_FILE) = 1
    /\ ret.op = "label_dict" => Opened(LABEL_DICT_FILE) = 1
    /\ ret.op = "label_sets" => Opened(LABEL_SETS_FILE) = 1

\* 64 + b % 192 of the first three SHA-1 bytes of each name of the
\* dictionaries, worked out by hand
ExpectedColor(name) ==
    CASE name = "liver"    -> <<133, 240, 194>>
      [] name = "spleen"   -> <<90, 156, 153>>
      [] name = "pancreas" -> <<178, 255, 91>>
      [] OTHER             -> <<>>

\* the list of one run of the fallback is the dictionary's labels in
\* ascending ID order, ID 0 black, every other label the colour of its name
\* with channels in 64..255
GeneratedInOrder(g) ==
    /\ Len(g.colors) = Len(g.label_dict)
    /\ {<<g.colors[i].name, g.colors[i].id>> : i \in 1 .. Len(g.colors)}
           = {g.label_dict[i] : i \in 1 .. Len(g.label_dict)}
    /\ \A i \in 1 .. (Len(g.colors) - 1) : g.colors[i].id <= g.colors[i + 1].id
    /\ \A i \in 1 .. Len(g.colors) :
           IF g.colors[i].id = 0
           THEN g.colors[i].color = <<0, 0, 0>>
           ELSE /\ \A c \in 1 .. 3 : g.colors[i].color[c] \in 64 .. 255
                /\ g.colors[i].color = ExpectedColor(g.colors[i].name)

\* C24: the fallback colours are deterministic: for a loaded dictionary the
\* generated list is ordered by label ID, a name gets the same RGB in every
\* run (before and after refresh_cache), ID 0 gets [0, 0, 0], every other
\* label has its three channels in 64..255, and label_colors returns that
\* list whenever the colours file gives nothing
C24_FallbackColorsDeterministic ==
    /\ \A k \in 1 .. Len(prior) : GeneratedInOrder(prior[k])
    /\ \A k \in 1 .. Len(prior), l \in 1 .. Len(prior) :
           /\ prior[k].label_dict = prior[l].label_dict
                  => prior[k].colors = prior[l].colors
           /\ \A i \in 1 .. Len(prior[k].colors), j \in 1 .. Len(prior[l].colors) :
                  /\ prior[k].colors[i].name = prior[l].colors[j].name
                  /\ prior[k].colors[i].id # 0
                  /\ prior[l].colors[j].id # 0
                  => prior[k].colors[i].color = prior[l].colors[j].color
    /\ ret.op = "label_colors" /\ ~Truthy(LoadJson(conf_dir, LABEL_COLORS_FILE))
           => Len(prior) > 0 /\ ret.result = prior[1].colors

\* the fallback ran twice, the second time after refresh_cache, on a
\* dictionary stored out of ID order
C24_Witness ==
    /\ ret.op = "label_colors"
    /\ ret.fallback
    /\ Len(prior) = 2
    /\ prior[1] = prior[2]
    /\ loads = <<LABEL_COLORS_FILE, LABEL_DICT_FILE>>
    /\ prior[1].label_dict = << <<"spleen", 2>>, <<"pancreas", 3>>, <<"liver", 1>>,
                               <<"background", 0>> >>
    /\ ret.result = << [id |-> 0, name |-> "background", color |-> <<0, 0, 0>>],
                       [id |-> 1, name |-> "liver", color |-> <<133, 240, 194>>],
                       [id |-> 2, name |-> "spleen", color |-> <<90, 156, 153>>],
                       [id |-> 3, name |-> "pancreas", color |-> <<178, 255, 91>>] >>

\* the scans of voxels_dir for which inference returned a volume
SavedScans == {i \in 1 .. Len(voxels_dir) : voxels_dir[i].outcome = "saved"}

\* validation was enabled, validate_and_clean returned, and its result has
\* cleaned = true
CleanedResult(scan) ==
    /\ constants.ENABLE_SEGMENTATION_VALIDATION
    /\ ~scan.input.raises
    /\ scan.validated # <<>>
    /\ scan.validated[1].cleaned

\* the per-label files are the split of the volume `image`
SplitOf(files, image) ==
    /\ DOMAIN files = {l \in DOMAIN LabelDict :
                           l > 0 /\ \E v \in DOMAIN image.data : image.data[v] = l}
    /\ \A l \in DOMAIN files :
           \A v \in DOMAIN image.data :
               files[l][v] = (IF image.data[v] = l THEN l ELSE 0)

RECURSIVE ResultsOf(_)
\* the validation results of a sequence of scans, in order
ResultsOf(scans) ==
    IF Len(scans) = 0 THEN <<>>
    ELSE (IF scans[1].outcome = "saved" THEN scans[1].validated ELSE <<>>)
         \o ResultsOf(Tail(scans))

\* C25: for each scan whose inference succeeded, all.nii.gz (and the
\* per-label files split from it) holds the cleaned volume exactly when
\* validation is enabled, validate_and_clean returned without raising and
\* its result has cleaned = true; otherwise it holds the raw inference
\* volume; every validation result, valid or not, belongs to a written scan
C25_CleanedVolumeWrittenIffCleaned ==
    /\ \A i \in SavedScans :
           /\ voxels_dir[i].validated # <<>>
                  <=> (constants.ENABLE_SEGMENTATION_VALIDATION
                       /\ ~voxels_dir[i].input.raises)
           /\ IF CleanedResult(voxels_dir[i])
              THEN /\ voxels_dir[i].all_nii = voxels_dir[i].validated[1].cleaned_img[1]
                   /\ voxels_dir[i].all_nii.data # voxels_dir[i].raw.data
              ELSE voxels_dir[i].all_nii = voxels_dir[i].raw
           /\ SplitOf(voxels_dir[i].voxels, voxels_dir[i].all_nii)
    /\ ResultsOf(voxels_dir) = patient_validation_results

\* a result with errors and cleaned = true: the cleaned volume was written
C25_Witness ==
    \E i \in SavedScans :
        /\ CleanedResult(voxels_dir[i])
        /\ ~voxels_dir[i].validated[1].valid
        /\ voxels_dir[i].all_nii = voxels_dir[i].validated[1].cleaned_img[1]
        /\ voxels_dir[i].all_nii # voxels_dir[i].raw

\* how many findings of a list come from one check
FromCheck(findings, check) ==
    Cardinality({i \in 1 .. Len(findings) : findings[i].check = check})

\* C26: validate_and_clean never returns more than 5 warnings: at most one
\* from the label check, at most two from the voxel-count check (never both
\* the over- and the under-segmentation warning), at most one from the
\* spatial check and at most one from the statistical check; so the report
\* rule for more than 5 warnings is not triggered by any of its results
C26_AtMostFiveWarnings ==
    After("validate_and_clean") =>
        /\ Len(ret.result.warnings) <= 5
        /\ FromCheck(ret.result.warnings, "label") <= 1
        /\ FromCheck(ret.result.warnings, "voxel") <= 2
        /\ FromCheck(ret.result.warnings, "spatial") <= 1
        /\ FromCheck(ret.result.warnings, "statistical") <= 1
        /\ FromCheck(ret.result.warnings, "label")
             + FromCheck(ret.result.warnings, "voxel")
             + FromCheck(ret.result.warnings, "spatial")
             + FromCheck(ret.result.warnings, "statistical")
               = Len(ret.result.warnings)
        /\ ~({"over_segmentation", "under_segmentation"}
                 \subseteq Kinds(ret.result.warnings))
        /\ \A i \in 1 .. Len(TriggeredRecommendations(ret.result)) :
               TriggeredRecommendations(ret.result)[i]
                   # <<"- **Multiple warnings detected**">>

\* a result with all five warnings
C26_Witness ==
    /\ After("validate_and_clean")
    /\ Len(ret.result.warnings) = 5
    /\ Kinds(ret.result.warnings)
           = {"unknown_labels", "over_segmentation", "small_labels",
              "small_components", "dominant_label"}

\* the sizes of the same-label 6-connected components of a volume
ComponentSizes(data, shape) ==
    UNION {{Cardinality(NdLabel({v \in DOMAIN data : data[v] = l}, shape)[c]) :
                c \in 1 .. Len(NdLabel({v \in DOMAIN data : data[v] = l}, shape))} :
               l \in {data[v] : v \in DOMAIN data} \ {0}}

\* C27: whenever validate_and_clean returns cleaned = true, the cleaned
\* volume has no same-label 6-connected component with fewer than
\* min_voxels_per_component voxels
C27_NoSmallComponentAfterCleanup ==
    After("validate_and_clean") /\ ret.result.cleaned =>
        \A size \in ComponentSizes(ret.result.cleaned_img[1].data, seg_img.shape) :
            size >= MinVoxelsArg(<<>>, ret.args[2])

\* C28: clean_artifacts is idempotent: run again on its own output it
\* returns that volume unchanged, with total_cleaned = 0
C28_CleanArtifactsIdempotent ==
    After("clean_artifacts") /\ Len(prior) > 0 =>
        /\ ret.result.data = ret.given
        /\ ret.result.stats.total_cleaned = 0

\* every voxel of `after` keeps its value in `before` or is 0, and no label
\* appears that `before` does not hold
OnlyReverted(before, after) ==
    /\ DOMAIN after = DOMAIN before
    /\ \A v \in DOMAIN before : after[v] = before[v] \/ after[v] = 0
    /\ \A v \in DOMAIN before : before[v] = 0 => after[v] = 0
    /\ {after[v] : v \in DOMAIN after} \ {0} \subseteq {before[v] : v \in DOMAIN before} \ {0}

\* C29: cleanup only reverts voxels to background: in the output of
\* remove_small_components, of clean_artifacts and of their composition in
\* validate_and_clean every voxel keeps its input value or is 0, no
\* background voxel becomes labelled and no new label ID appears
C29_CleanupOnlyReverts ==
    /\ After("remove_small_components") => OnlyReverted(ret.given, ret.result.data)
    /\ After("clean_artifacts") => OnlyReverted(ret.given, ret.result.data)
    /\ After("validate_and_clean") /\ ret.result.cleaned =>
           OnlyReverted(ret.given, ret.result.cleaned_img[1].data)

\* a cleaned volume from which both passes removed something and in which a
\* label is left
C29_Witness ==
    /\ After("validate_and_clean")
    /\ ret.result.cleaned
    /\ ret.result.stats.components_removed > 0
    /\ ret.result.stats.artifacts_removed > 0
    /\ CountNonzero(ret.result.cleaned_img[1].data) > 0

\* the distinct nonzero values of the volume the last call was given
LabelsGiven == {ret.given[v] : v \in DOMAIN ret.given} \ {0}

\* C30: a non-empty volume holding exactly one distinct nonzero label ID
\* gets the label-dominance warning from validate_and_clean, so its warnings
\* list is never empty and, with enable_cleanup true, the cleanup pass is
\* attempted on it
C30_SingleLabelAlwaysDominates ==
    After("validate_and_clean") /\ Cardinality(LabelsGiven) = 1 =>
        /\ "dominant_label" \in Kinds(ret.result.warnings)
        /\ Len(ret.result.warnings) > 0
        /\ ShouldClean(EnableCleanupGiven, ret.result.warnings, ret.result.errors)
               = EnableCleanupGiven
        /\ EnableCleanupGiven =>
               \E r1 \in {RemoveSmallComponents(ret.given, seg_img.shape,
                                                MinVoxelsArg(<<>>, ret.args[2]))} :
                   ret.result.cleaned
                       <=> (r1.count > 0 \/ CleanArtifacts(r1.data, seg_img.shape).count > 0)

\* a single-label volume whose only warning is the dominance warning, and
\* which the cleanup then changed
C30_Witness ==
    /\ After("validate_and_clean")
    /\ Cardinality(LabelsGiven) = 1
    /\ Kinds(ret.result.warnings) = {"dominant_label"}
    /\ Len(ret.result.errors) = 0
    /\ ret.result.cleaned

====
